---- MODULE Spec2Model ----
(***************************************************************************)
(* LearnLens backend: the Express route handlers over the Prisma database, *)
(* as a state machine.  A request is handled by one process; every `await` *)
(* of a database or AI call is one atomic step, so concurrent requests     *)
(* interleave exactly at the awaits of the handlers.                       *)
(***************************************************************************)
EXTENDS Integers, Sequences, FiniteSets, TLC

\* db: the database; pc, rq, loc, resp: each request's position, content,
\* local variables and answer; nreq: the requests that have arrived.
\* aiReply and quiz are the argument and the result of a call of generateQuiz
\* taken on its own.
VARIABLES db, pc, rq, loc, resp, nreq, aiReply, quiz

vars == <<db, pc, rq, loc, resp, nreq, aiReply, quiz>>

\* ------------------------------------------------------------------ bounds
\* Number of requests in one behaviour; each is handled by a process of its
\* own, and any number of them may be in flight at once.
NumProcs == 2

Procs == 1..NumProcs

\* ------------------------------------------------------------------- texts
\* A text is a sequence of atoms; concatenation of texts is \o.  The null of
\* a nullable column is the one-atom text NullText.
T(a) == <<a>>
EmptyText == << >>
NullText == <<"<null>">>
\* JavaScript truthiness of a (nullable) string: "" and null are falsy.
Falsy(t) == t = EmptyText \/ t = NullText
\* a || b on strings
OrElse(a, b) == IF Falsy(a) THEN b ELSE a

\* -------------------------------------------------------------------- JSON
\* A string of the AI layer is a sequence of one-character strings.  A JSON
\* value is [t, v]: t its type and v a sequence (the characters of a string,
\* number or literal, the elements of an array, the members of an object).
WS == {" ", "\n", "\t", "\r"}
Digits == {"0", "1", "2", "3", "4", "5", "6", "7", "8", "9"}

JNull == [t |-> "null", v |-> << >>]
JArr(elems) == [t |-> "arr", v |-> elems]
JObj(members) == [t |-> "obj", v |-> members]
JStr(chars) == [t |-> "str", v |-> chars]

ParseFail == [ok |-> FALSE, val |-> JNull, next |-> 0]
ParseOk(v, n) == [ok |-> TRUE, val |-> v, next |-> n]

At(s, i) == IF i >= 1 /\ i <= Len(s) THEN s[i] ELSE "<eof>"

RECURSIVE SkipWs(_, _)
SkipWs(s, i) == IF At(s, i) \in WS THEN SkipWs(s, i + 1) ELSE i

RECURSIVE SkipDigits(_, _)
SkipDigits(s, i) == IF At(s, i) \in Digits THEN SkipDigits(s, i + 1) ELSE i

\* the character an escape \c stands for; "<bad>" for an invalid escape
Unescape(c) ==
    CASE c = "n" -> "\n" [] c = "t" -> "\t" [] c = "r" -> "\r"
      [] c \in {"\"", "\\", "/"} -> c
      [] OTHER -> "<bad>"

\* the string whose opening quote precedes position i
RECURSIVE ParseString(_, _, _)
ParseString(s, i, acc) ==
    LET c == At(s, i)
    IN IF c = "<eof>" \/ c \in {"\n", "\t", "\r"} THEN ParseFail
       ELSE IF c = "\"" THEN ParseOk(JStr(acc), i + 1)
       ELSE IF c = "\\"
            THEN IF At(s, i + 1) = "<eof>" \/ Unescape(At(s, i + 1)) = "<bad>"
                 THEN ParseFail
                 ELSE ParseString(s, i + 2, Append(acc, Unescape(At(s, i + 1))))
       ELSE ParseString(s, i + 1, Append(acc, c))

\* -?(0|[1-9][0-9]*)(\.[0-9]+)?([eE][+-]?[0-9]+)?
ParseNumber(s, i) ==
    LET a == IF At(s, i) = "-" THEN i + 1 ELSE i
        b == IF At(s, a) = "0" THEN a + 1 ELSE SkipDigits(s, a)
        c == IF At(s, b) = "." THEN SkipDigits(s, b + 1) ELSE b
        d == IF At(s, c) \in {"e", "E"}
             THEN IF At(s, c + 1) \in {"+", "-"} THEN c + 2 ELSE c + 1
             ELSE c
        e == IF d = c THEN c ELSE SkipDigits(s, d)
    IN IF b = a \/ (At(s, b) = "." /\ c = b + 1) \/ (d # c /\ e = d)
       THEN ParseFail
       ELSE ParseOk([t |-> "num", v |-> SubSeq(s, i, e - 1)], e)

ParseLiteral(s, i) ==
    LET Is(w) == SubSeq(s, i, i + Len(w) - 1) = w
    IN IF i + 3 <= Len(s) /\ Is(<<"t", "r", "u", "e">>)
       THEN ParseOk([t |-> "bool", v |-> <<"t">>], i + 4)
       ELSE IF i + 4 <= Len(s) /\ Is(<<"f", "a", "l", "s", "e">>)
       THEN ParseOk([t |-> "bool", v |-> <<"f">>], i + 5)
       ELSE IF i + 3 <= Len(s) /\ Is(<<"n", "u", "l", "l">>)
       THEN ParseOk(JNull, i + 4)
       ELSE ParseFail

RECURSIVE ParseValue(_, _), ParseElements(_, _, _), ParseMembers(_, _, _)
\* the JSON value that starts at or after position i (whitespace skipped)
ParseValue(s, i) ==
    LET k == SkipWs(s, i)
        c == At(s, k)
    IN CASE c = "{" ->
              IF At(s, SkipWs(s, k + 1)) = "}"
              THEN ParseOk(JObj(<< >>), SkipWs(s, k + 1) + 1)
              ELSE ParseMembers(s, k + 1, << >>)
         [] c = "[" ->
              IF At(s, SkipWs(s, k + 1)) = "]"
              THEN ParseOk(JArr(<< >>), SkipWs(s, k + 1) + 1)
              ELSE ParseElements(s, k + 1, << >>)
         [] c = "\"" -> ParseString(s, k + 1, << >>)
         [] c = "-" \/ c \in Digits -> ParseNumber(s, k)
         [] c \in {"t", "f", "n"} -> ParseLiteral(s, k)
         [] OTHER -> ParseFail

\* the elements of an array from position i on, up to its "]"
ParseElements(s, i, acc) ==
    LET e == ParseValue(s, i)
        k == SkipWs(s, e.next)
    IN IF ~e.ok THEN ParseFail
       ELSE IF At(s, k) = "," THEN ParseElements(s, k + 1, Append(acc, e.val))
       ELSE IF At(s, k) = "]" THEN ParseOk(JArr(Append(acc, e.val)), k + 1)
       ELSE ParseFail

\* the members of an object from position i on, up to its "}"
ParseMembers(s, i, acc) ==
    LET k == SkipWs(s, i)
        key == IF At(s, k) = "\"" THEN ParseString(s, k + 1, << >>) ELSE ParseFail
        col == SkipWs(s, key.next)
        val == IF key.ok /\ At(s, col) = ":" THEN ParseValue(s, col + 1) ELSE ParseFail
        nxt == SkipWs(s, val.next)
        mem == Append(acc, [k |-> key.val.v, val |-> val.val])
    IN IF ~val.ok THEN ParseFail
       ELSE IF At(s, nxt) = "," THEN ParseMembers(s, nxt + 1, mem)
       ELSE IF At(s, nxt) = "}" THEN ParseOk(JObj(mem), nxt + 1)
       ELSE ParseFail

\* JSON.parse(s): ok is FALSE where JSON.parse throws a SyntaxError
JsonParse(s) ==
    LET r == ParseValue(s, 1)
    IN IF r.ok /\ SkipWs(s, r.next) = Len(s) + 1 THEN r ELSE ParseFail

\* obj[key] of a parsed object: the last member of that name, or no value
Member(obj, key) ==
    LET idx == { i \in 1..Len(obj.v) : obj.v[i].k = key }
    IN IF obj.t # "obj" \/ idx = {} THEN {}
       ELSE { obj.v[CHOOSE i \in idx : \A j \in idx : j <= i].val }

\* JavaScript truthiness of a JSON value
Truthy(j) ==
    CASE j.t \in {"obj", "arr"} -> TRUE
      [] j.t = "str" -> j.v # << >>
      [] j.t = "bool" -> j.v = <<"t">>
      [] j.t = "null" -> FALSE
      [] OTHER ->
           LET stop == { i \in 1..Len(j.v) : j.v[i] \in {"e", "E"} }
               upto == IF stop = {} THEN Len(j.v)
                       ELSE (CHOOSE i \in stop : \A k \in stop : i <= k) - 1
           IN \E i \in 1..upto : j.v[i] \in (Digits \ {"0"})

\* ------------------------------------------------------ truncated-JSON repair
\* (s.match(/c/g) || []).length
RECURSIVE Count(_, _)
Count(s, c) ==
    IF s = << >> THEN 0 ELSE (IF Head(s) = c THEN 1 ELSE 0) + Count(Tail(s), c)

\* the positions of character c in s
Positions(s, c) == { i \in 1..Len(s) : s[i] = c }
Last(S) == CHOOSE i \in S : \A j \in S : j <= i
First(S) == CHOOSE i \in S : \A j \in S : i <= j

\* s.trim()
RECURSIVE TrimStr(_)
TrimStr(s) ==
    IF s # << >> /\ Head(s) \in WS THEN TrimStr(Tail(s))
    ELSE IF s # << >> /\ s[Len(s)] \in WS THEN TrimStr(SubSeq(s, 1, Len(s) - 1))
    ELSE s

\* text.match(/\{[\s\S]*\}/): from the first "{" to the last "}", or no match
MatchObject(text) ==
    LET open == Positions(text, "{")
        close == Positions(text, "}")
    IN IF open = {} \/ close = {} \/ Last(close) < First(open) THEN {}
       ELSE { SubSeq(text, First(open), Last(close)) }

\* the commas from which whitespace alone leads to position i
CommasBefore(s, i) ==
    { c \in Positions(s, ",") : c < i /\ \A k \in (c + 1)..(i - 1) : s[k] \in WS }

\* s.replace(/,\s*"[^"]*$/, ''): cut at the comma before the last quote
RemoveIncompleteKey(s) ==
    LET quotes == Positions(s, "\"")
        cut == IF quotes = {} THEN {} ELSE CommasBefore(s, Last(quotes))
    IN IF cut = {} THEN s ELSE SubSeq(s, 1, First(cut) - 1)

\* s.replace(/,\s*\{[^}]*$/, ''): cut at the first comma that leads to a "{"
\* after which no "}" follows
RemoveIncompleteObject(s) ==
    LET close == Positions(s, "}")
        open == { b \in Positions(s, "{") : close = {} \/ b > Last(close) }
        cut == UNION { CommasBefore(s, b) : b \in open }
    IN IF cut = {} THEN s ELSE SubSeq(s, 1, First(cut) - 1)

\* s.replace(/,\s*$/, '')
RemoveTrailingComma(s) ==
    LET cut == CommasBefore(s, Len(s) + 1)
    IN IF cut = {} THEN s ELSE SubSeq(s, 1, First(cut) - 1)

\* n copies of character c
Repeat(c, n) == [i \in 1..n |-> c]

\* fixTruncatedJson(jsonStr)
FixTruncatedJson(jsonStr) ==
    LET fixed == TrimStr(jsonStr)
        cut == RemoveTrailingComma(RemoveIncompleteObject(RemoveIncompleteKey(fixed)))
        brackets == Count(cut, "[") - Count(cut, "]")
        braces == Count(cut, "{") - Count(cut, "}")
    IN IF Count(fixed, "{") # Count(fixed, "}") \/ Count(fixed, "[") # Count(fixed, "]")
       THEN cut \o Repeat("]", IF brackets > 0 THEN brackets ELSE 0)
                \o Repeat("}", IF braces > 0 THEN braces ELSE 0)
       ELSE fixed

\* ------------------------------------------------------------- generateQuiz
\* The outcome of evaluating a block: it threw, or it returned `val`;
\* `repaired` records that fixTruncatedJson ran.
Thrown == [threw |-> TRUE, val |-> JNull, repaired |-> FALSE]
Returned(v, rep) == [threw |-> FALSE, val |-> v, repaired |-> rep]

\* parsed.questions || []
QuestionsOf(parsed) ==
    LET q == Member(parsed, <<"q", "u", "e", "s", "t", "i", "o", "n", "s">>)
    IN IF q = {} \/ ~Truthy(CHOOSE x \in q : TRUE) THEN JArr(<< >>)
       ELSE CHOOSE x \in q : TRUE

\* the try { JSON.parse(jsonStr) } catch { fixTruncatedJson ... } of generateQuiz
ParseOrRepair(jsonStr) ==
    LET direct == JsonParse(jsonStr)
        repaired == JsonParse(FixTruncatedJson(jsonStr))
    IN IF direct.ok THEN Returned(QuestionsOf(direct.val), FALSE)
       ELSE IF repaired.ok THEN Returned(QuestionsOf(repaired.val), TRUE)
       ELSE [Thrown EXCEPT !.repaired = TRUE]

\* a catch block that rethrows
CatchRethrow(r) == r

\* catch (e) { return []; }
CatchReturnEmpty(r) == IF r.threw THEN Returned(JArr(<< >>), r.repaired) ELSE r

\* response.choices[0]?.message?.content || "{}"
ReplyText(content) == IF content = << >> THEN <<"{", "}">> ELSE content

\* generateQuiz for the outcome of the chat-completion call: ai.ok is FALSE
\* when the call throws, ai.text is the content of the model's reply
GenerateQuiz(ai) ==
    LET jsonMatch == MatchObject(ReplyText(ai.text))
        inner == IF jsonMatch = {} THEN Returned(JArr(<< >>), FALSE)
                 ELSE ParseOrRepair(CHOOSE m \in jsonMatch : TRUE)
    IN CatchReturnEmpty(IF ~ai.ok THEN Thrown ELSE CatchReturnEmpty(inner))

\* -------------------------------------------------------------- the database
\* Every table is a set of rows; ids come from one monotone counter (cuid()).
SeedUsers ==
    { [id |-> 1, email |-> <<"a", "@", "x", ".", "y">>],
      [id |-> 2, email |-> <<"b", "@", "x", ".", "y">>] }

SeedMaterials ==
    { [id |-> 3, userId |-> 1, title |-> T("t3"), description |-> NullText,
       content |-> T("c3"), type |-> "text", summary |-> NullText,
       isPublic |-> FALSE, publishedAt |-> 0],
      [id |-> 4, userId |-> 2, title |-> T("t4"), description |-> T("d4"),
       content |-> T("c4"), type |-> "text", summary |-> T("s4"),
       isPublic |-> TRUE, publishedAt |-> 0] }

SeedExplores ==
    { [id |-> 5, userId |-> 2, originalMaterialId |-> 4, title |-> T("t4"),
       description |-> T("d4"), content |-> T("c4"), type |-> "text",
       forksCount |-> 0, updatedAt |-> 0] }

InitDb ==
    [ users |-> SeedUsers,
      materials |-> SeedMaterials,
      messages |-> { [id |-> 9, materialId |-> 3, role |-> "user", content |-> T("hi")],
                     [id |-> 10, materialId |-> 4, role |-> "user", content |-> T("yo")] },
      quizzes |-> { [id |-> 11, materialId |-> 3, question |-> "q0"],
                    [id |-> 12, materialId |-> 4, question |-> "q0"] },
      chatSessions |-> { [id |-> 6, userId |-> 1, updatedAt |-> 0] },
      sessionMessages |-> { [id |-> 13, chatSessionId |-> 6, role |-> "user", content |-> T("hi")] },
      explores |-> SeedExplores,
      likes |-> {},
      dislikes |-> {},
      comments |-> { [id |-> 14, exploreContentId |-> 5, userId |-> 1, content |-> T("nice")] },
      plans |-> { [id |-> 7, materialId |-> 3, userId |-> 1] },
      tasks |-> { [id |-> 8, studyPlanId |-> 7, gen |-> 0, day |-> 1, isCompleted |-> TRUE] },
      nextId |-> 15 ]

\* prisma.<table>.findFirst / findUnique by id: the set of matching rows (0 or 1)
ById(rows, id) == { r \in rows : r.id = id }

\* ON DELETE CASCADE of materials(id): messages, quizzes, explore_contents (and
\* through them likes, dislikes, comments) and study_plans (and their tasks).
CascadeMaterial(d, mid) ==
    LET ex == { e.id : e \in { x \in d.explores : x.originalMaterialId = mid } }
        pl == { q.id : q \in { x \in d.plans : x.materialId = mid } }
    IN [d EXCEPT
          !.materials = { m \in @ : m.id # mid },
          !.messages = { m \in @ : m.materialId # mid },
          !.quizzes = { q \in @ : q.materialId # mid },
          !.explores = { e \in @ : e.originalMaterialId # mid },
          !.likes = { l \in @ : l.exploreContentId \notin ex },
          !.dislikes = { l \in @ : l.exploreContentId \notin ex },
          !.comments = { c \in @ : c.exploreContentId \notin ex },
          !.plans = { q \in @ : q.materialId # mid },
          !.tasks = { t \in @ : t.studyPlanId \notin pl }]

\* ON DELETE CASCADE of chat_sessions(id)
CascadeChatSession(d, sid) ==
    [d EXCEPT !.chatSessions = { s \in @ : s.id # sid },
              !.sessionMessages = { m \in @ : m.chatSessionId # sid }]

\* ------------------------------------------------------------- the requests
NoLoc == [material |-> {}, row |-> {}, reply |-> {}, safe |-> FALSE, seen |-> {},
          shown |-> {}, gen |-> <<>>, fetched |-> << >>, history |-> << >>,
          fullContent |-> << >>, userMessage |-> {}, assistant |-> {}, reads |-> 0]
NoReq == [route |-> "none", hdr |-> "none", tok |-> [kind |-> "none", userId |-> 0],
          user |-> 0, id |-> 0, sub |-> 0, mids |-> {}, title |-> EmptyText,
          description |-> EmptyText, content |-> {}, text |-> EmptyText,
          file |-> "none", flag |-> FALSE, ai |-> "none", email |-> << >>,
          password |-> << >>]
NoResp == [status |-> 0, body |-> "none", data |-> {}, events |-> << >>, ended |-> FALSE]

\* A request of user uid with a token that verifies
Req(route, uid, id) ==
    [NoReq EXCEPT !.route = route, !.hdr = "bearer",
                  !.tok = [kind |-> "valid", userId |-> uid], !.id = id]

Init ==
    /\ db = InitDb
    /\ pc = [p \in Procs |-> "idle"]
    /\ rq = [p \in Procs |-> NoReq]
    /\ loc = [p \in Procs |-> NoLoc]
    /\ resp = [p \in Procs |-> NoResp]
    /\ nreq = 0
    /\ aiReply = [ok |-> FALSE, text |-> << >>]
    /\ quiz = {}

\* res.status(s).json(b): the handler ends
Respond(p, s, b) ==
    /\ pc' = [pc EXCEPT ![p] = "done"]
    /\ resp' = [resp EXCEPT ![p] = [NoResp EXCEPT !.status = s, !.body = b, !.ended = TRUE]]

\* res.json({ success: true, ... }) with the rows the response carries
RespondWith(p, rows) ==
    /\ pc' = [pc EXCEPT ![p] = "done"]
    /\ resp' = [resp EXCEPT ![p] = [NoResp EXCEPT !.status = 200, !.body = "success",
                                              !.data = rows, !.ended = TRUE]]

\* the handler moves on to its next await
Goto(p, l) ==
    /\ pc' = [pc EXCEPT ![p] = l]
    /\ UNCHANGED resp

\* jwt.verify(token, secret): throws unless the token is signed and not expired
JwtVerifies(tok) == tok.kind = "valid"

\* authMiddleware without the user lookup
AuthPasses_NoUserLookup(d, r) == r.hdr = "bearer" /\ r.tok.kind = "valid"

\* authMiddleware: the request passes iff the header is "Bearer <token>", the
\* token verifies and prisma.user.findUnique finds decoded.userId
AuthPasses(d, r) ==
    /\ r.hdr = "bearer"
    /\ JwtVerifies(r.tok)
    /\ ById(d.users, r.tok.userId) # {}

\* Request r arrives as the next request (process p = nreq + 1, nreq being the
\* clock of new Date()) and runs through authMiddleware; next() enters the
\* route handler, whose first await is the step labelled r.route.
AuthMiddleware(p, r) ==
    /\ pc[p] = "idle"
    /\ p = nreq + 1
    /\ nreq' = nreq + 1
    /\ loc' = [loc EXCEPT ![p] = NoLoc]
    /\ IF AuthPasses(db, r)
       THEN /\ rq' = [rq EXCEPT ![p] = [r EXCEPT !.user = r.tok.userId]]
            /\ pc' = [pc EXCEPT ![p] = r.route]
            /\ resp' = [resp EXCEPT ![p] = NoResp]
       ELSE /\ rq' = [rq EXCEPT ![p] = r]
            /\ Respond(p, 401, "Unauthorized")
    /\ UNCHANGED <<db, aiReply, quiz>>

\* findFirst without the userId condition
FindOwnedMaterial_AnyUser(d, id, uid) == { m \in d.materials : m.id = id }

\* prisma.material.findFirst({ where: { id, userId } })
FindOwnedMaterial(d, id, uid) == { m \in d.materials : m.id = id /\ m.userId = uid }

\* ---------------------------------------------------------- materials routes
\* The first await of an owner-guarded material route: findFirst, 404 when the
\* material is not one of the requester's, otherwise on to label l.
FindMaterialOr404(p, l) ==
    LET material == FindOwnedMaterial(db, rq[p].id, rq[p].user)
    IN IF material = {}
       THEN Respond(p, 404, "Material not found") /\ UNCHANGED loc
       ELSE Goto(p, l) /\ loc' = [loc EXCEPT ![p].material = material]

\* the material row the handler holds in its local `material`
Mat(p) == CHOOSE m \in loc[p].material : TRUE

\* prisma.material.update({ where: { id }, data }): f maps the stored row to
\* the updated row; the call throws when no row has that id.
MaterialUpdate(d, id, f(_)) ==
    [d EXCEPT !.materials = { IF m.id = id THEN f(m) ELSE m : m \in @ }]

\* PUT /api/materials/:id
MaterialPut_find(p) ==
    /\ pc[p] = "materials.put"
    /\ FindMaterialOr404(p, "materials.put:update")
    /\ UNCHANGED <<db, rq, nreq, aiReply, quiz>>

MaterialPut_update(p) ==
    /\ pc[p] = "materials.put:update"
    /\ IF ById(db.materials, Mat(p).id) = {}
       THEN Respond(p, 500, "Failed to update material") /\ UNCHANGED db
       ELSE LET Upd(m) == [m EXCEPT !.title = OrElse(rq[p].title, @),
                                    !.content = OrElse(rq[p].text, @)]
            IN /\ db' = MaterialUpdate(db, Mat(p).id, Upd)
               /\ Respond(p, 200, "success")
    /\ UNCHANGED <<rq, loc, nreq, aiReply, quiz>>

\* DELETE /api/materials/:id
MaterialDelete_find(p) ==
    /\ pc[p] = "materials.delete"
    /\ FindMaterialOr404(p, "materials.delete:delete")
    /\ UNCHANGED <<db, rq, nreq, aiReply, quiz>>

MaterialDelete_delete(p) ==
    /\ pc[p] = "materials.delete:delete"
    /\ IF ById(db.materials, Mat(p).id) = {}
       THEN Respond(p, 500, "Failed to delete material") /\ UNCHANGED db
       ELSE /\ db' = CascadeMaterial(db, Mat(p).id)
            /\ Respond(p, 200, "Material deleted")
    /\ UNCHANGED <<rq, loc, nreq, aiReply, quiz>>

\* DELETE /api/materials/:id/summary
SummaryDelete_find(p) ==
    /\ pc[p] = "materials.summary.delete"
    /\ FindMaterialOr404(p, "materials.summary.delete:update")
    /\ UNCHANGED <<db, rq, nreq, aiReply, quiz>>

SummaryDelete_update(p) ==
    /\ pc[p] = "materials.summary.delete:update"
    /\ IF ById(db.materials, rq[p].id) = {}
       THEN Respond(p, 500, "Failed to delete summary") /\ UNCHANGED db
       ELSE LET Upd(m) == [m EXCEPT !.summary = NullText]
            IN /\ db' = MaterialUpdate(db, rq[p].id, Upd)
               /\ Respond(p, 200, "Summary deleted")
    /\ UNCHANGED <<rq, loc, nreq, aiReply, quiz>>

\* DELETE /api/materials/:id/quizzes
QuizzesDelete_find(p) ==
    /\ pc[p] = "materials.quizzes.delete"
    /\ FindMaterialOr404(p, "materials.quizzes.delete:deleteMany")
    /\ UNCHANGED <<db, rq, nreq, aiReply, quiz>>

QuizzesDelete_deleteMany(p) ==
    /\ pc[p] = "materials.quizzes.delete:deleteMany"
    /\ db' = [db EXCEPT !.quizzes = { q \in @ : q.materialId # rq[p].id }]
    /\ Respond(p, 200, "Quizzes deleted")
    /\ UNCHANGED <<rq, loc, nreq, aiReply, quiz>>

\* DELETE /api/materials/:id/messages
MessagesDelete_find(p) ==
    /\ pc[p] = "materials.messages.delete"
    /\ FindMaterialOr404(p, "materials.messages.delete:deleteMany")
    /\ UNCHANGED <<db, rq, nreq, aiReply, quiz>>

MessagesDelete_deleteMany(p) ==
    /\ pc[p] = "materials.messages.delete:deleteMany"
    /\ db' = [db EXCEPT !.messages = { m \in @ : m.materialId # rq[p].id }]
    /\ Respond(p, 200, "All messages deleted")
    /\ UNCHANGED <<rq, loc, nreq, aiReply, quiz>>

\* DELETE /api/materials/:id/messages/:messageId
MessageDelete_find(p) ==
    /\ pc[p] = "materials.message.delete"
    /\ FindMaterialOr404(p, "materials.message.delete:findMessage")
    /\ UNCHANGED <<db, rq, nreq, aiReply, quiz>>

MessageDelete_findMessage(p) ==
    /\ pc[p] = "materials.message.delete:findMessage"
    /\ LET message == { m \in db.messages : m.id = rq[p].sub /\ m.materialId = rq[p].id }
       IN IF message = {}
          THEN Respond(p, 404, "Message not found")
          ELSE Goto(p, "materials.message.delete:delete")
    /\ UNCHANGED <<db, rq, loc, nreq, aiReply, quiz>>

MessageDelete_delete(p) ==
    /\ pc[p] = "materials.message.delete:delete"
    /\ IF ById(db.messages, rq[p].sub) = {}
       THEN Respond(p, 500, "Failed to delete message") /\ UNCHANGED db
       ELSE /\ db' = [db EXCEPT !.messages = { m \in @ : m.id # rq[p].sub }]
            /\ Respond(p, 200, "Message deleted")
    /\ UNCHANGED <<rq, loc, nreq, aiReply, quiz>>

\* multer fileFilter (ALLOWED_MIMETYPES): an unsupported type is an error
UploadAccepts(file) == file # "unsupported"
\* parsePdf / parseWord / buffer.toString of the uploaded file: the text, or
\* no text when the parser throws
ParsedFile(file) == IF file = "corrupt" THEN {} ELSE { T("file") }

\* POST /api/materials/:id/append-file (upload.single("file") runs first)
AppendFile_find(p) ==
    /\ pc[p] = "materials.appendFile"
    /\ IF ~UploadAccepts(rq[p].file)
       THEN Respond(p, 500, "Unsupported file type") /\ UNCHANGED loc
       ELSE LET material == FindOwnedMaterial(db, rq[p].id, rq[p].user)
            IN IF material = {}
               THEN Respond(p, 404, "Material not found") /\ UNCHANGED loc
               ELSE IF rq[p].file = "none"
                    THEN Respond(p, 400, "No file provided") /\ UNCHANGED loc
                    ELSE /\ Goto(p, "materials.appendFile:update")
                         /\ loc' = [loc EXCEPT ![p].material = material]
    /\ UNCHANGED <<db, rq, nreq, aiReply, quiz>>

AppendFile_update(p) ==
    /\ pc[p] = "materials.appendFile:update"
    /\ IF ParsedFile(rq[p].file) = {} \/ ById(db.materials, Mat(p).id) = {}
       THEN Respond(p, 500, "Failed to append file") /\ UNCHANGED db
       ELSE LET newContent == CHOOSE t \in ParsedFile(rq[p].file) : TRUE
                updatedContent == Mat(p).content \o T("[Tambahan Konten]") \o newContent
                Upd(m) == [m EXCEPT !.content = updatedContent]
            IN /\ db' = MaterialUpdate(db, Mat(p).id, Upd)
               /\ Respond(p, 200, "success")
    /\ UNCHANGED <<rq, loc, nreq, aiReply, quiz>>

\* POST /api/materials/:id/append-text
AppendText_find(p) ==
    /\ pc[p] = "materials.appendText"
    /\ IF Falsy(rq[p].text)
       THEN Respond(p, 400, "No text provided") /\ UNCHANGED loc
       ELSE FindMaterialOr404(p, "materials.appendText:update")
    /\ UNCHANGED <<db, rq, nreq, aiReply, quiz>>

AppendText_update(p) ==
    /\ pc[p] = "materials.appendText:update"
    /\ IF ById(db.materials, Mat(p).id) = {}
       THEN Respond(p, 500, "Failed to append text") /\ UNCHANGED db
       ELSE LET updatedContent == Mat(p).content \o T("[Tambahan Catatan]") \o rq[p].text
                Upd(m) == [m EXCEPT !.content = updatedContent]
            IN /\ db' = MaterialUpdate(db, Mat(p).id, Upd)
               /\ Respond(p, 200, "success")
    /\ UNCHANGED <<rq, loc, nreq, aiReply, quiz>>

\* POST /api/materials/:id/unpublish
Unpublish_find(p) ==
    /\ pc[p] = "materials.unpublish"
    /\ FindMaterialOr404(p, "materials.unpublish:update")
    /\ UNCHANGED <<db, rq, nreq, aiReply, quiz>>

Unpublish_update(p) ==
    /\ pc[p] = "materials.unpublish:update"
    /\ IF ById(db.materials, Mat(p).id) = {}
       THEN Respond(p, 500, "Failed to unpublish material") /\ UNCHANGED db
       ELSE LET Upd(m) == [m EXCEPT !.isPublic = FALSE, !.publishedAt = 0]
            IN /\ db' = MaterialUpdate(db, Mat(p).id, Upd)
               /\ Respond(p, 200, "success")
    /\ UNCHANGED <<rq, loc, nreq, aiReply, quiz>>

\* --------------------------------------------------------------- chat routes
\* DELETE /api/chat/:materialId
ChatDelete_find(p) ==
    /\ pc[p] = "chat.delete"
    /\ FindMaterialOr404(p, "chat.delete:deleteMany")
    /\ UNCHANGED <<db, rq, nreq, aiReply, quiz>>

\* a deleteMany without its where clause
DeleteMessages_All(d, mid) == [d EXCEPT !.messages = {}]

\* prisma.message.deleteMany({ where: { materialId } })
DeleteMessages(d, mid) == [d EXCEPT !.messages = { m \in @ : m.materialId # mid }]

ChatDelete_deleteMany(p) ==
    /\ pc[p] = "chat.delete:deleteMany"
    /\ db' = DeleteMessages(db, Mat(p).id)
    /\ Respond(p, 200, "Chat history cleared")
    /\ UNCHANGED <<rq, loc, nreq, aiReply, quiz>>

\* prisma.chatSession.findFirst({ where: { id, userId } })
FindOwnedSession(d, id, uid) == { c \in d.chatSessions : c.id = id /\ c.userId = uid }

\* the row the handler holds in its local (chatSession, task, existingExplore)
Row(p) == CHOOSE r \in loc[p].row : TRUE

FindSessionOr404(p, l) ==
    LET chatSession == FindOwnedSession(db, rq[p].id, rq[p].user)
    IN IF chatSession = {}
       THEN Respond(p, 404, "Chat session not found") /\ UNCHANGED loc
       ELSE Goto(p, l) /\ loc' = [loc EXCEPT ![p].row = chatSession]

\* DELETE /api/chat-sessions/:id
SessionDelete_find(p) ==
    /\ pc[p] = "chatSessions.delete"
    /\ FindSessionOr404(p, "chatSessions.delete:delete")
    /\ UNCHANGED <<db, rq, nreq, aiReply, quiz>>

SessionDelete_delete(p) ==
    /\ pc[p] = "chatSessions.delete:delete"
    /\ IF ById(db.chatSessions, Row(p).id) = {}
       THEN Respond(p, 500, "Failed to delete chat session") /\ UNCHANGED db
       ELSE /\ db' = CascadeChatSession(db, Row(p).id)
            /\ Respond(p, 200, "Chat session deleted")
    /\ UNCHANGED <<rq, loc, nreq, aiReply, quiz>>

\* DELETE /api/chat-sessions/:id/messages
SessionClear_find(p) ==
    /\ pc[p] = "chatSessions.messages.delete"
    /\ FindSessionOr404(p, "chatSessions.messages.delete:deleteMany")
    /\ UNCHANGED <<db, rq, nreq, aiReply, quiz>>

SessionClear_deleteMany(p) ==
    /\ pc[p] = "chatSessions.messages.delete:deleteMany"
    /\ db' = [db EXCEPT !.sessionMessages = { m \in @ : m.chatSessionId # Row(p).id }]
    /\ Respond(p, 200, "Chat history cleared")
    /\ UNCHANGED <<rq, loc, nreq, aiReply, quiz>>

\* ----------------------------------------------------------- study-task routes
\* task.studyPlan.userId of prisma.studyTask.findUnique({ include: { studyPlan } })
TaskOwner(d, t) == (CHOOSE q \in d.plans : q.id = t.studyPlanId).userId

\* the ownership test of the task routes: task.studyPlan.userId === req.user.id
OwnsTask(d, t, uid) == TaskOwner(d, t) = uid

\* PATCH /api/ai/study-plan/task/:taskId
TaskPatch_find(p) ==
    /\ pc[p] = "ai.task.patch"
    /\ LET task == ById(db.tasks, rq[p].id)
       IN IF task = {} \/ ~OwnsTask(db, CHOOSE t \in task : TRUE, rq[p].user)
          THEN Respond(p, 404, "Task not found") /\ UNCHANGED loc
          ELSE Goto(p, "ai.task.patch:update") /\ loc' = [loc EXCEPT ![p].row = task]
    /\ UNCHANGED <<db, rq, nreq, aiReply, quiz>>

TaskPatch_update(p) ==
    /\ pc[p] = "ai.task.patch:update"
    /\ IF ById(db.tasks, rq[p].id) = {}
       THEN Respond(p, 500, "Failed to update task") /\ UNCHANGED db
       ELSE /\ db' = [db EXCEPT !.tasks = { IF t.id = rq[p].id
                                             THEN [t EXCEPT !.isCompleted = rq[p].flag]
                                             ELSE t : t \in @ }]
            /\ Respond(p, 200, "success")
    /\ UNCHANGED <<rq, loc, nreq, aiReply, quiz>>

\* The first await of the question and evaluate routes: 404 for no task, 403
\* for a task of another user's plan.
FindTaskOr403(p, l) ==
    LET task == ById(db.tasks, rq[p].id)
    IN IF task = {}
       THEN Respond(p, 404, "Task not found") /\ UNCHANGED loc
       ELSE IF ~OwnsTask(db, CHOOSE t \in task : TRUE, rq[p].user)
            THEN Respond(p, 403, "Access denied") /\ UNCHANGED loc
            ELSE Goto(p, l) /\ loc' = [loc EXCEPT ![p].row = task]

\* POST /api/ai/task/:taskId/question (generateTaskQuestion never throws)
TaskQuestion_find(p) ==
    /\ pc[p] = "ai.task.question"
    /\ FindTaskOr403(p, "ai.task.question:ai")
    /\ UNCHANGED <<db, rq, nreq, aiReply, quiz>>

TaskQuestion_ai(p) ==
    /\ pc[p] = "ai.task.question:ai"
    /\ Respond(p, 200, "success")
    /\ UNCHANGED <<db, rq, loc, nreq, aiReply, quiz>>

\* the outcomes of the chat-completion call of evaluateTaskAnswer: the call
\* throws, or the model replies
EvaluationOutcomes == { "throws", "nojson", "unparsable", "passed", "failed", "string" }

JTrue == [t |-> "bool", v |-> <<"t">>]
JFalse == [t |-> "bool", v |-> <<"f">>]
PassedKey == <<"p", "a", "s", "s", "e", "d">>

\* response.choices[0]?.message?.content of a reply: prose, a cut object,
\* {"passed":true}, {"passed":false} or {"passed":"false"}
EvaluationReply(ai) ==
    LET Obj(v) == <<"{", "\"">> \o PassedKey \o <<"\"", ":">> \o v \o <<"}">>
    IN CASE ai = "nojson" -> <<"o", "k">>
         [] ai = "unparsable" -> Obj(<<"t", "r", "u">>)
         [] ai = "passed" -> Obj(<<"t", "r", "u", "e">>)
         [] ai = "failed" -> Obj(<<"f", "a", "l", "s", "e">>)
         [] OTHER -> Obj(<<"\"", "f", "a", "l", "s", "e", "\"">>)

\* evaluateTaskAnswer(...).passed: parsed.passed ?? false of the object
\* matched in the reply; false when the call throws, nothing matches or
\* JSON.parse throws
EvaluateTaskAnswer(ai) ==
    IF ai = "throws" THEN [passed |-> JFalse]
    ELSE LET jsonMatch == MatchObject(EvaluationReply(ai))
         IN IF jsonMatch = {} THEN [passed |-> JFalse]
            ELSE LET parsed == JsonParse(CHOOSE m \in jsonMatch : TRUE)
                     passed == Member(parsed.val, PassedKey)
                 IN IF ~parsed.ok THEN [passed |-> JFalse]
                    ELSE IF passed = {} \/ passed = { JNull } THEN [passed |-> JFalse]
                    ELSE [passed |-> CHOOSE v \in passed : TRUE]

\* if (evaluation.passed)
EvaluationPassed(ai) == Truthy(EvaluateTaskAnswer(ai).passed)

\* res.json({ success: true, passed: evaluation.passed, ...,
\*            taskCompleted: evaluation.passed })
EvaluationAnswer(ai) ==
    { [passed |-> EvaluateTaskAnswer(ai).passed,
       taskCompleted |-> EvaluateTaskAnswer(ai).passed] }

\* POST /api/ai/task/:taskId/evaluate
TaskEvaluate_find(p) ==
    /\ pc[p] = "ai.task.evaluate"
    /\ IF Falsy(rq[p].text)
       THEN Respond(p, 400, "Question and answer are required") /\ UNCHANGED loc
       ELSE FindTaskOr403(p, "ai.task.evaluate:ai")
    /\ UNCHANGED <<db, rq, nreq, aiReply, quiz>>

TaskEvaluate_ai(p) ==
    /\ pc[p] = "ai.task.evaluate:ai"
    /\ \E ai \in EvaluationOutcomes :
          /\ rq' = [rq EXCEPT ![p].ai = ai]
          /\ IF EvaluationPassed(ai)
             THEN Goto(p, "ai.task.evaluate:update")
             ELSE RespondWith(p, EvaluationAnswer(ai))
    /\ UNCHANGED <<db, loc, nreq, aiReply, quiz>>

TaskEvaluate_update(p) ==
    /\ pc[p] = "ai.task.evaluate:update"
    /\ IF ById(db.tasks, rq[p].id) = {}
       THEN Respond(p, 500, "Failed to evaluate answer") /\ UNCHANGED db
       ELSE /\ db' = [db EXCEPT !.tasks = { IF t.id = rq[p].id
                                             THEN [t EXCEPT !.isCompleted = TRUE]
                                             ELSE t : t \in @ }]
            /\ RespondWith(p, EvaluationAnswer(rq[p].ai))
    /\ UNCHANGED <<rq, loc, nreq, aiReply, quiz>>

\* ---------------------------------------------------------------- moderation
\* content.slice(0, 10000) in isContentSafe
SliceLimit == 10000

\* String length of an atom
AtomLen(a) ==
    CASE a = "LONG" -> SliceLimit
      [] a = "Title: " -> 7
      [] a = "\nDescription: " -> 14
      [] a = "\nContent: " -> 10
      [] OTHER -> 2

RECURSIVE TextLen(_)
TextLen(t) == IF t = << >> THEN 0 ELSE AtomLen(Head(t)) + TextLen(Tail(t))

\* text.slice(0, n): the atoms that fit whole, then "<cut>" for what is left
\* of an atom that was cut through (nothing when the cut falls between atoms)
RECURSIVE Slice(_, _)
Slice(t, n) ==
    IF t = << >> \/ n <= 0 THEN << >>
    ELSE IF AtomLen(Head(t)) <= n
         THEN <<Head(t)>> \o Slice(Tail(t), n - AtomLen(Head(t)))
         ELSE <<"<cut>">>

\* result.trim() of the model's reply
RECURSIVE TrimLeft(_)
TrimLeft(t) == IF t # << >> /\ Head(t) = " " THEN TrimLeft(Tail(t)) ELSE t
RECURSIVE TrimRight(_)
TrimRight(t) ==
    IF t # << >> /\ t[Len(t)] = " " THEN TrimRight(SubSeq(t, 1, Len(t) - 1)) ELSE t
Trim(t) == TrimRight(TrimLeft(t))

\* result.startsWith(a)
StartsWith(t, a) == t # << >> /\ Head(t) = a

\* The outcomes of the chat-completion call of isContentSafe: it throws, or
\* the model replies with some text.
ModerationReplies ==
    { [ok |-> FALSE, text |-> EmptyText],
      [ok |-> TRUE, text |-> T("SAFE")],
      [ok |-> TRUE, text |-> <<" ", "UNSAFE", ": Sexual content">>],
      [ok |-> TRUE, text |-> EmptyText] }

\* isContentSafe failing open: a failed moderation call counts as safe
IsContentSafe_FailOpen(reply) ==
    ~reply.ok \/ ~StartsWith(OrElse(Trim(reply.text), T("SAFE")), "UNSAFE")

\* isContentSafe(content).safe given the outcome of the AI call
IsContentSafe(reply) ==
    IF ~reply.ok THEN FALSE
    ELSE LET result == OrElse(Trim(reply.text), T("SAFE"))
         IN ~StartsWith(result, "UNSAFE")

\* the part of isContentSafe's argument that the moderation model is shown
ModeratedText(content) == Slice(content, SliceLimit)

\* t occurs in s as a contiguous run of atoms
OccursIn(t, s) ==
    \E i \in 0..(Len(s) - Len(t)) : SubSeq(s, i + 1, i + Len(t)) = t

\* ------------------------------------------------------------------- publish
\* publishTitle, publishDesc and publishContent of POST /:id/publish
PublishTitle(r, m) == OrElse(r.title, m.title)
PublishDesc(r, m) == OrElse(r.description, OrElse(m.description, EmptyText))
PublishContent(r, m) ==
    IF r.content # {} THEN CHOOSE t \in r.content : TRUE
    ELSE OrElse(m.content, EmptyText)
\* combinedContent, the text given to isContentSafe
CombinedContent(r, m) ==
    T("Title: ") \o PublishTitle(r, m) \o T("\nDescription: ") \o PublishDesc(r, m)
        \o T("\nContent: ") \o OrElse(m.content, EmptyText)

\* POST /api/materials/:id/publish
Publish_find(p) ==
    /\ pc[p] = "materials.publish"
    /\ FindMaterialOr404(p, "materials.publish:moderate")
    /\ UNCHANGED <<db, rq, nreq, aiReply, quiz>>

Publish_moderate(p) ==
    /\ pc[p] = "materials.publish:moderate"
    /\ \E reply \in ModerationReplies :
          /\ loc' = [loc EXCEPT ![p].reply = { reply },
                                ![p].safe = IsContentSafe(reply),
                                ![p].seen = { CombinedContent(rq[p], Mat(p)) },
                                ![p].shown =
                                    { ModeratedText(CombinedContent(rq[p], Mat(p))) }]
          /\ IF ~IsContentSafe(reply)
             THEN Respond(p, 400, "Content Moderation Failed")
             ELSE Goto(p, "materials.publish:findExplore")
    /\ UNCHANGED <<db, rq, nreq, aiReply, quiz>>

Publish_findExplore(p) ==
    /\ pc[p] = "materials.publish:findExplore"
    /\ loc' = [loc EXCEPT ![p].row = { e \in db.explores : e.originalMaterialId = Mat(p).id }]
    /\ Goto(p, "materials.publish:upsert")
    /\ UNCHANGED <<db, rq, nreq, aiReply, quiz>>

\* prisma.exploreContent.update of the existing snapshot e
ExploreUpdated(e, r, m, now) ==
    [e EXCEPT !.title = PublishTitle(r, m), !.description = PublishDesc(r, m),
              !.content = PublishContent(r, m), !.updatedAt = now]

\* the row of prisma.exploreContent.create
ExploreCreated(id, r, m, now) ==
    [id |-> id, userId |-> r.user, originalMaterialId |-> m.id,
     title |-> PublishTitle(r, m), description |-> PublishDesc(r, m),
     content |-> PublishContent(r, m), type |-> m.type, forksCount |-> 0,
     updatedAt |-> now]

\* the foreign key alone, without explore_contents_originalMaterialId_key
ExploreInsertable_NoUniqueIndex(d, mid) == ById(d.materials, mid) # {}

\* explore_contents_originalMaterialId_key and the foreign key to materials:
\* whether a row for material mid can be inserted
ExploreInsertable(d, mid) ==
    /\ ById(d.materials, mid) # {}
    /\ { e \in d.explores : e.originalMaterialId = mid } = {}

Publish_upsert(p) ==
    /\ pc[p] = "materials.publish:upsert"
    /\ IF loc[p].row # {}
       THEN IF ById(db.explores, Row(p).id) = {}
            THEN Respond(p, 500, "Failed to publish material") /\ UNCHANGED db
            ELSE /\ db' = [db EXCEPT !.explores =
                             { IF e.id = Row(p).id
                               THEN ExploreUpdated(e, rq[p], Mat(p), nreq)
                               ELSE e : e \in @ }]
                 /\ Goto(p, "materials.publish:mark")
       ELSE IF ~ExploreInsertable(db, Mat(p).id)
            THEN Respond(p, 500, "Failed to publish material") /\ UNCHANGED db
            ELSE /\ db' = [db EXCEPT !.explores =
                             @ \cup { ExploreCreated(db.nextId, rq[p], Mat(p), nreq) },
                                     !.nextId = @ + 1]
                 /\ Goto(p, "materials.publish:mark")
    /\ UNCHANGED <<rq, loc, nreq, aiReply, quiz>>

Publish_mark(p) ==
    /\ pc[p] = "materials.publish:mark"
    /\ IF ById(db.materials, Mat(p).id) = {}
       THEN Respond(p, 500, "Failed to publish material") /\ UNCHANGED db
       ELSE LET Upd(m) == [m EXCEPT !.isPublic = TRUE, !.publishedAt = nreq]
            IN /\ db' = MaterialUpdate(db, Mat(p).id, Upd)
               /\ Respond(p, 200, "success")
    /\ UNCHANGED <<rq, loc, nreq, aiReply, quiz>>

\* ----------------------------------------------------------------- quiz route
\* What generateQuiz can return to the route: a list of questions; "bad" is a
\* question object that lacks a field the quizzes table requires.
QuizResults == { << >>, <<"q1">>, <<"q1", "q2">>, <<"bad">> }

\* POST /api/ai/:materialId/quiz
Quiz_findMany(p) ==
    /\ pc[p] = "ai.quiz"
    /\ LET targetMaterialIds == IF rq[p].mids # {} THEN rq[p].mids ELSE { rq[p].id }
           materials == { m \in db.materials :
                            m.id \in targetMaterialIds /\ m.userId = rq[p].user }
       IN IF materials = {}
          THEN Respond(p, 400, "No materials found") /\ UNCHANGED loc
          ELSE Goto(p, "ai.quiz:ai") /\ loc' = [loc EXCEPT ![p].material = materials]
    /\ UNCHANGED <<db, rq, nreq, aiReply, quiz>>

Quiz_ai(p) ==
    /\ pc[p] = "ai.quiz:ai"
    /\ \E questions \in QuizResults :
          IF questions = << >>
          THEN Respond(p, 500, "Failed to generate quiz questions") /\ UNCHANGED loc
          ELSE Goto(p, "ai.quiz:deleteMany") /\ loc' = [loc EXCEPT ![p].gen = questions]
    /\ UNCHANGED <<db, rq, nreq, aiReply, quiz>>

Quiz_deleteMany(p) ==
    /\ pc[p] = "ai.quiz:deleteMany"
    /\ db' = [db EXCEPT !.quizzes = { q \in @ : q.materialId # rq[p].id }]
    /\ Goto(p, "ai.quiz:create")
    /\ UNCHANGED <<rq, loc, nreq, aiReply, quiz>>

\* one prisma.quiz.create of the Promise.all; the last one answers
Quiz_create(p) ==
    /\ pc[p] = "ai.quiz:create"
    /\ LET q == Head(loc[p].gen)
       IN IF q = "bad" \/ ById(db.materials, rq[p].id) = {}
          THEN Respond(p, 500, "Failed to generate quiz") /\ UNCHANGED <<db, loc>>
          ELSE /\ db' = [db EXCEPT !.quizzes = @ \cup { [id |-> db.nextId,
                                                         materialId |-> rq[p].id,
                                                         question |-> q] },
                                   !.nextId = @ + 1]
               /\ loc' = [loc EXCEPT ![p].gen = Tail(@)]
               /\ IF Len(loc[p].gen) = 1 THEN Respond(p, 200, "success")
                  ELSE Goto(p, "ai.quiz:create")
    /\ UNCHANGED <<rq, nreq, aiReply, quiz>>

\* ------------------------------------------------------------- explore routes
\* the rows of a (userId, exploreContentId) unique index
Reaction(rows, uid, eid) == { l \in rows : l.userId = uid /\ l.exploreContentId = eid }

\* whether a like or dislike row (uid, eid) can be inserted into rows: the
\* unique index on (userId, exploreContentId) and the two foreign keys
ReactionInsertable(d, rows, uid, eid) ==
    /\ Reaction(rows, uid, eid) = {}
    /\ ById(d.users, uid) # {}
    /\ ById(d.explores, eid) # {}

\* POST /api/explore/:id/like
Like_deleteDislike(p) ==
    /\ pc[p] = "explore.like"
    /\ db' = [db EXCEPT !.dislikes = @ \ Reaction(@, rq[p].user, rq[p].id)]
    /\ Goto(p, "explore.like:find")
    /\ UNCHANGED <<rq, loc, nreq, aiReply, quiz>>

Like_find(p) ==
    /\ pc[p] = "explore.like:find"
    /\ loc' = [loc EXCEPT ![p].row = Reaction(db.likes, rq[p].user, rq[p].id)]
    /\ Goto(p, "explore.like:toggle")
    /\ UNCHANGED <<db, rq, nreq, aiReply, quiz>>

Like_toggle(p) ==
    /\ pc[p] = "explore.like:toggle"
    /\ IF loc[p].row # {}
       THEN IF ById(db.likes, Row(p).id) = {}
            THEN Respond(p, 500, "Failed to toggle like") /\ UNCHANGED db
            ELSE /\ db' = [db EXCEPT !.likes = { l \in @ : l.id # Row(p).id }]
                 /\ Respond(p, 200, "liked: false")
       ELSE IF ~ReactionInsertable(db, db.likes, rq[p].user, rq[p].id)
            THEN Respond(p, 500, "Failed to toggle like") /\ UNCHANGED db
            ELSE /\ db' = [db EXCEPT !.likes = @ \cup { [id |-> db.nextId,
                                                       userId |-> rq[p].user,
                                                       exploreContentId |-> rq[p].id] },
                                    !.nextId = @ + 1]
                 /\ Respond(p, 200, "liked: true")
    /\ UNCHANGED <<rq, loc, nreq, aiReply, quiz>>

\* POST /api/explore/:id/dislike
Dislike_deleteLike(p) ==
    /\ pc[p] = "explore.dislike"
    /\ db' = [db EXCEPT !.likes = @ \ Reaction(@, rq[p].user, rq[p].id)]
    /\ Goto(p, "explore.dislike:find")
    /\ UNCHANGED <<rq, loc, nreq, aiReply, quiz>>

Dislike_find(p) ==
    /\ pc[p] = "explore.dislike:find"
    /\ loc' = [loc EXCEPT ![p].row = Reaction(db.dislikes, rq[p].user, rq[p].id)]
    /\ Goto(p, "explore.dislike:toggle")
    /\ UNCHANGED <<db, rq, nreq, aiReply, quiz>>

Dislike_toggle(p) ==
    /\ pc[p] = "explore.dislike:toggle"
    /\ IF loc[p].row # {}
       THEN IF ById(db.dislikes, Row(p).id) = {}
            THEN Respond(p, 500, "Failed to toggle dislike") /\ UNCHANGED db
            ELSE /\ db' = [db EXCEPT !.dislikes = { l \in @ : l.id # Row(p).id }]
                 /\ Respond(p, 200, "disliked: false")
       ELSE IF ~ReactionInsertable(db, db.dislikes, rq[p].user, rq[p].id)
            THEN Respond(p, 500, "Failed to toggle dislike") /\ UNCHANGED db
            ELSE /\ db' = [db EXCEPT !.dislikes = @ \cup { [id |-> db.nextId,
                                                          userId |-> rq[p].user,
                                                          exploreContentId |-> rq[p].id] },
                                    !.nextId = @ + 1]
                 /\ Respond(p, 200, "disliked: true")
    /\ UNCHANGED <<rq, loc, nreq, aiReply, quiz>>

\* the row of prisma.material.create in the fork route
ForkedMaterial(id, e, uid) ==
    [id |-> id, userId |-> uid, title |-> e.title \o T(" (Fork)"),
     description |-> e.description, content |-> e.content, type |-> e.type,
     summary |-> NullText, isPublic |-> FALSE, publishedAt |-> 0]

\* a read-modify-write of forksCount from the row the handler read
IncrementForks_FromRead(e, read) == [e EXCEPT !.forksCount = read.forksCount + 1]

\* data: { forksCount: { increment: 1 } } on the stored row e, for a handler
\* that read the row as `read`
IncrementForks(e, read) == [e EXCEPT !.forksCount = @ + 1]

\* POST /api/explore/:id/fork
Fork_find(p) ==
    /\ pc[p] = "explore.fork"
    /\ LET exploreContent == ById(db.explores, rq[p].id)
       IN IF exploreContent = {}
          THEN Respond(p, 404, "Content not found") /\ UNCHANGED loc
          ELSE Goto(p, "explore.fork:create") /\ loc' = [loc EXCEPT ![p].row = exploreContent]
    /\ UNCHANGED <<db, rq, nreq, aiReply, quiz>>

Fork_create(p) ==
    /\ pc[p] = "explore.fork:create"
    /\ IF ById(db.users, rq[p].user) = {}
       THEN Respond(p, 500, "Failed to fork content") /\ UNCHANGED db
       ELSE /\ db' = [db EXCEPT !.materials =
                        @ \cup { ForkedMaterial(db.nextId, Row(p), rq[p].user) },
                                !.nextId = @ + 1]
            /\ Goto(p, "explore.fork:increment")
    /\ UNCHANGED <<rq, loc, nreq, aiReply, quiz>>

Fork_increment(p) ==
    /\ pc[p] = "explore.fork:increment"
    /\ IF ById(db.explores, Row(p).id) = {}
       THEN Respond(p, 500, "Failed to fork content") /\ UNCHANGED db
       ELSE /\ db' = [db EXCEPT !.explores = { IF e.id = Row(p).id
                                                THEN IncrementForks(e, Row(p))
                                                ELSE e : e \in @ }]
            /\ Respond(p, 200, "success")
    /\ UNCHANGED <<rq, loc, nreq, aiReply, quiz>>

\* ---------------------------------------------------------- study-plan route
\* What generateStudyPlan can return: a plan whose tasks array, if it has
\* one, lists the days of the planned tasks.
PlanResults == { [tasks |-> {}] } \cup { [tasks |-> { days }] : days \in { << >>, <<1>>, <<1, 2>> } }

\* the plan of prisma.studyPlan.findUnique({ where: { materialId_userId } })
PlanOf(d, mid, uid) == { q \in d.plans : q.materialId = mid /\ q.userId = uid }

\* study_plans_materialId_userId_key and the foreign keys of study_plans
PlanInsertable(d, mid, uid) ==
    /\ PlanOf(d, mid, uid) = {}
    /\ ById(d.materials, mid) # {}
    /\ ById(d.users, uid) # {}

\* the rows of prisma.studyTask.createMany: task i of request p gets id
\* first + i - 1 and is not completed (the column default)
NewTasks(first, planId, days, p) ==
    { [id |-> first + i - 1, studyPlanId |-> planId, gen |-> p, day |-> days[i],
       isCompleted |-> FALSE] : i \in 1..Len(days) }

\* POST /api/ai/:materialId/study-plan
Plan_find(p) ==
    /\ pc[p] = "ai.studyPlan"
    /\ FindMaterialOr404(p, "ai.studyPlan:ai")
    /\ UNCHANGED <<db, rq, nreq, aiReply, quiz>>

Plan_ai(p) ==
    /\ pc[p] = "ai.studyPlan:ai"
    /\ \E studyPlanData \in PlanResults :
          IF studyPlanData.tasks \subseteq { << >> }
          THEN Respond(p, 500, "Failed to generate study plan") /\ UNCHANGED loc
          ELSE /\ Goto(p, "ai.studyPlan:findPlan")
               /\ loc' = [loc EXCEPT ![p].gen = CHOOSE days \in studyPlanData.tasks : TRUE]
    /\ UNCHANGED <<db, rq, nreq, aiReply, quiz>>

Plan_findPlan(p) ==
    /\ pc[p] = "ai.studyPlan:findPlan"
    /\ loc' = [loc EXCEPT ![p].row = PlanOf(db, Mat(p).id, rq[p].user)]
    /\ Goto(p, "ai.studyPlan:reset")
    /\ UNCHANGED <<db, rq, nreq, aiReply, quiz>>

\* deleteMany of the old tasks, or create of the plan
Plan_reset(p) ==
    /\ pc[p] = "ai.studyPlan:reset"
    /\ IF loc[p].row # {}
       THEN /\ db' = [db EXCEPT !.tasks = { t \in @ : t.studyPlanId # Row(p).id }]
            /\ Goto(p, "ai.studyPlan:createMany")
            /\ UNCHANGED loc
       ELSE IF ~PlanInsertable(db, Mat(p).id, rq[p].user)
            THEN Respond(p, 500, "Failed to generate study plan") /\ UNCHANGED <<db, loc>>
            ELSE LET newPlan == [id |-> db.nextId, materialId |-> Mat(p).id,
                                 userId |-> rq[p].user]
                 IN /\ db' = [db EXCEPT !.plans = @ \cup { newPlan }, !.nextId = @ + 1]
                    /\ loc' = [loc EXCEPT ![p].row = { newPlan }]
                    /\ Goto(p, "ai.studyPlan:createMany")
    /\ UNCHANGED <<rq, nreq, aiReply, quiz>>

Plan_createMany(p) ==
    /\ pc[p] = "ai.studyPlan:createMany"
    /\ IF ById(db.plans, Row(p).id) = {}
       THEN Respond(p, 500, "Failed to generate study plan") /\ UNCHANGED db
       ELSE /\ db' = [db EXCEPT !.tasks =
                        @ \cup NewTasks(db.nextId, Row(p).id, loc[p].gen, p),
                                !.nextId = @ + Len(loc[p].gen)]
            /\ Goto(p, "ai.studyPlan:fetch")
    /\ UNCHANGED <<rq, loc, nreq, aiReply, quiz>>

\* findUnique({ where: { id: planId }, include: { tasks } }) and the answer
Plan_fetch(p) ==
    /\ pc[p] = "ai.studyPlan:fetch"
    /\ RespondWith(p, { t \in db.tasks : t.studyPlanId = Row(p).id })
    /\ UNCHANGED <<db, rq, loc, nreq, aiReply, quiz>>

\* ------------------------------------------------- requests that change a record
\* Both users address the records of user 1: material 3, its message 9, chat
\* session 6 and study task 8.
OwnerRoutes ==
    { "materials.put", "materials.delete", "materials.summary.delete",
      "materials.quizzes.delete", "materials.messages.delete",
      "materials.message.delete", "materials.appendFile", "materials.appendText",
      "materials.unpublish", "materials.publish", "chat.delete" }
SessionRoutes == { "chatSessions.delete", "chatSessions.messages.delete" }
TaskRoutes == { "ai.task.patch", "ai.task.question", "ai.task.evaluate" }

OwnerRequests ==
    LET Body(r) ==
          [r EXCEPT !.sub = 9, !.title = T("nt"), !.text = T("tx"), !.file = "pdf"]
    IN  { Body(Req(rt, u, 3)) : rt \in OwnerRoutes, u \in {1, 2} }
        \cup { Body(Req(rt, u, 6)) : rt \in SessionRoutes, u \in {1, 2} }
        \cup { Body(Req(rt, u, 8)) : rt \in TaskRoutes, u \in {1, 2} }
        \cup { [Body(Req("materials.appendFile", u, 3)) EXCEPT !.file = f] :
                 u \in {1, 2}, f \in {"none", "unsupported", "corrupt"} }
        \cup { [Body(Req(rt, 2, IF rt = "ai.task.evaluate" THEN 8 ELSE 3))
                  EXCEPT !.text = EmptyText] :
                 rt \in {"materials.appendText", "ai.task.evaluate"} }
        \cup { Body(Req("materials.message.delete", 2, 4)),
               Body(Req("materials.delete", 1, 99)),
               Body(Req("ai.task.evaluate", 2, 99)) }

Handlers(p) ==
    \/ MaterialPut_find(p) \/ MaterialPut_update(p)
    \/ MaterialDelete_find(p) \/ MaterialDelete_delete(p)
    \/ SummaryDelete_find(p) \/ SummaryDelete_update(p)
    \/ QuizzesDelete_find(p) \/ QuizzesDelete_deleteMany(p)
    \/ MessagesDelete_find(p) \/ MessagesDelete_deleteMany(p)
    \/ MessageDelete_find(p) \/ MessageDelete_findMessage(p) \/ MessageDelete_delete(p)
    \/ AppendFile_find(p) \/ AppendFile_update(p)
    \/ AppendText_find(p) \/ AppendText_update(p)
    \/ Unpublish_find(p) \/ Unpublish_update(p)
    \/ Publish_find(p) \/ Publish_moderate(p) \/ Publish_findExplore(p)
    \/ Publish_upsert(p) \/ Publish_mark(p)
    \/ ChatDelete_find(p) \/ ChatDelete_deleteMany(p)
    \/ SessionDelete_find(p) \/ SessionDelete_delete(p)
    \/ SessionClear_find(p) \/ SessionClear_deleteMany(p)
    \/ TaskPatch_find(p) \/ TaskPatch_update(p)
    \/ TaskQuestion_find(p) \/ TaskQuestion_ai(p)
    \/ TaskEvaluate_find(p) \/ TaskEvaluate_ai(p) \/ TaskEvaluate_update(p)

NextOwner ==
    \E p \in Procs :
        \/ \E r \in OwnerRequests : AuthMiddleware(p, r)
        \/ Handlers(p)

SpecOwner == Init /\ [][NextOwner]_vars

\* The record request r addresses exists and belongs to the requester.
TargetOwned(d, r) ==
    CASE r.route \in SessionRoutes ->
           \E c \in d.chatSessions : c.id = r.id /\ c.userId = r.user
      [] r.route \in TaskRoutes ->
           \E t \in d.tasks : \E q \in d.plans :
              t.id = r.id /\ q.id = t.studyPlanId /\ q.userId = r.user
      [] OTHER ->
           \E m \in d.materials : m.id = r.id /\ m.userId = r.user

\* the step of process p that runs the first await of its handler
FirstStep(p) == pc[p] = rq[p].route /\ pc'[p] # pc[p]

NotOwnedStatus(d, r) ==
    IF r.route \in {"materials.appendText", "ai.task.evaluate"} /\ Falsy(r.text) THEN 400
    ELSE IF r.route = "materials.appendFile" /\ r.file = "unsupported" THEN 500
    ELSE IF r.route \in {"ai.task.question", "ai.task.evaluate"}
            /\ \E t \in d.tasks : t.id = r.id
         THEN 403
    ELSE 404

AuthRequests ==
    { [NoReq EXCEPT !.route = rt, !.id = 3, !.hdr = h,
                    !.tok = [kind |-> k, userId |-> u]] :
        rt \in {"materials.delete", "materials.unpublish"},
        h \in {"none", "basic", "bearer"},
        k \in {"valid", "expired", "forged"}, u \in {0, 1, 2} }

NextAuth ==
    \E p \in Procs :
        \/ \E r \in AuthRequests : AuthMiddleware(p, r)
        \/ MaterialDelete_find(p) \/ MaterialDelete_delete(p)
        \/ Unpublish_find(p) \/ Unpublish_update(p)

SpecAuth == Init /\ [][NextAuth]_vars

\* the request presents "Bearer <token>", the token verifies and its userId
\* names a user of d
Authenticated(d, r) ==
    /\ r.hdr = "bearer"
    /\ r.tok.kind = "valid"
    /\ \E u \in d.users : u.id = r.tok.userId

\* C3: a handler behind authMiddleware runs only for a request with a Bearer
\* token that verifies and names an existing user, as that user; every other
\* request is answered 401, its handler never runs and no state changes.
C3_HandlerOnlyAfterAuth ==
    [][\A p \in Procs :
         /\ (pc[p] = "idle" /\ pc'[p] # "idle") =>
               IF Authenticated(db, rq'[p])
               THEN pc'[p] = rq'[p].route /\ rq'[p].user = rq'[p].tok.userId
               ELSE pc'[p] = "done" /\ resp'[p].status = 401 /\ db' = db
         /\ (pc[p] = "done" /\ resp[p].status = 401) =>
               (pc'[p] = pc[p] /\ resp'[p] = resp[p])
         /\ (pc[p] \notin {"idle", "done"}) => Authenticated(db, rq[p])]_vars

C3_Witness ==
    /\ \E p \in Procs :
          /\ pc[p] = "done" /\ resp[p].status = 401
          /\ rq[p].hdr = "bearer" /\ rq[p].tok = [kind |-> "valid", userId |-> 0]
    /\ \E p \in Procs :
          /\ pc[p] = "materials.delete:delete"
          /\ rq[p].tok = [kind |-> "valid", userId |-> 1]

\* ------------------------------------------------------------ quiz generation
\* Both users ask for a quiz on either material, listing no material, their
\* own or the other user's material in the body's materialIds.
QuizRequests ==
    { [Req("ai.quiz", u, id) EXCEPT !.mids = ms] :
        u \in {1, 2}, id \in {3, 4}, ms \in {{}, {3}, {4}, {3, 4}} }

NextQuiz ==
    \E p \in Procs :
        \/ \E r \in QuizRequests : AuthMiddleware(p, r)
        \/ Quiz_findMany(p) \/ Quiz_ai(p) \/ Quiz_deleteMany(p) \/ Quiz_create(p)

SpecQuiz == Init /\ [][NextQuiz]_vars

\* the quiz rows a step deletes or adds
QuizDelta == (db.quizzes \ db'.quizzes) \cup (db'.quizzes \ db.quizzes)

\* process p takes the step
Steps(p) == pc'[p] # pc[p] \/ loc'[p] # loc[p]

\* C2: a quiz request deletes and adds quiz rows only of a material that its
\* user owns, whatever the body's materialIds lists.
C2_QuizOnlyOfOwnMaterial ==
    [][\A p \in Procs :
         Steps(p) => \A q \in QuizDelta :
                        \E m \in db.materials : m.id = q.materialId /\ m.userId = rq[p].user]_vars

\* ------------------------------------------------------------------ publishing
\* User 1 publishes material 3 (never published) and user 2 republishes
\* material 4 (snapshot 5), with and without body fields; meanwhile user 1
\* forks snapshot 5 and likes it.
PublishBody(r, title, description, content) ==
    [r EXCEPT !.title = title, !.description = description, !.content = content]

PublishRequests ==
    { PublishBody(Req("materials.publish", 1, 3), EmptyText, EmptyText, {}),
      PublishBody(Req("materials.publish", 1, 3), T("nt"), T("nd"), { T("nc") }),
      PublishBody(Req("materials.publish", 2, 4), T("nt"), T("nd"), { T("nc") }),
      PublishBody(Req("materials.publish", 2, 4), EmptyText, EmptyText, { EmptyText }),
      Req("explore.fork", 1, 5), Req("explore.like", 1, 5) }

NextPublish ==
    \E p \in Procs :
        \/ \E r \in PublishRequests : AuthMiddleware(p, r)
        \/ Publish_find(p) \/ Publish_moderate(p) \/ Publish_findExplore(p)
        \/ Publish_upsert(p) \/ Publish_mark(p)
        \/ Fork_find(p) \/ Fork_create(p) \/ Fork_increment(p)
        \/ Like_deleteDislike(p) \/ Like_find(p) \/ Like_toggle(p)

SpecPublish == Init /\ [][NextPublish]_vars

\* the moderation call failed, or its verdict begins with UNSAFE
Rejected(reply) ==
    \/ ~reply.ok
    \/ LET verdict == Trim(reply.text) IN verdict # << >> /\ Head(verdict) = "UNSAFE"

\* C4: a publish whose moderation reports the content unsafe, or whose
\* moderation call fails, is answered 400 'Content Moderation Failed' and
\* changes nothing; a publish request changes the database only after a
\* moderation reply that was not a rejection.
C4_ModerationGate ==
    [][\A p \in Procs :
         /\ ( /\ pc[p] = "materials.publish:moderate" /\ pc'[p] # pc[p]
              /\ \E reply \in loc'[p].reply : Rejected(reply) )
            => /\ pc'[p] = "done"
               /\ resp'[p].status = 400
               /\ resp'[p].body = "Content Moderation Failed"
               /\ db' = db
         /\ (rq[p].route = "materials.publish" /\ Steps(p) /\ db' # db)
            => \E reply \in loc[p].reply : ~Rejected(reply)]_vars

C4_Witness ==
    \E p \in Procs :
        /\ rq[p].route = "materials.publish" /\ rq[p].id = 3
        /\ pc[p] = "done" /\ resp[p].status = 400
        /\ \E reply \in loc[p].reply : ~reply.ok
        /\ \E m \in db.materials : m.id = 3 /\ ~m.isPublic /\ m.publishedAt = 0
        /\ \A e \in db.explores : e.originalMaterialId # 3

\* the snapshot of material mid
SnapshotOf(d, mid) == { e \in d.explores : e.originalMaterialId = mid }

\* C5: the title, description and content that a publish request stores in
\* a snapshot all occur in the text that the request submitted to
\* isContentSafe and that was judged safe.
C5_SnapshotWasModerated ==
    [][\A p \in Procs :
         (pc[p] = "materials.publish:upsert" /\ pc'[p] = "materials.publish:mark")
         => \A e \in SnapshotOf(db', Mat(p).id) :
               /\ loc[p].safe
               /\ \E seen \in loc[p].seen :
                     /\ OccursIn(e.title, seen)
                     /\ OccursIn(e.description, seen)
                     /\ OccursIn(e.content, seen)]_vars

\* the reactions to snapshot eid
ReactionsTo(d, eid) ==
    [likes |-> { l \in d.likes : l.exploreContentId = eid },
     dislikes |-> { l \in d.dislikes : l.exploreContentId = eid },
     comments |-> { c \in d.comments : c.exploreContentId = eid }]

\* C7: a material never has more than one snapshot; a publish of a material
\* that has a snapshot writes its title, description and content into that
\* snapshot and keeps the snapshot's id, likes, dislikes, comments and fork
\* count.
C7_OneSnapshotKept ==
    /\ [](\A m \in db.materials : Cardinality(SnapshotOf(db, m.id)) <= 1)
    /\ [][\A p \in Procs :
            ( /\ pc[p] = "materials.publish:upsert" /\ pc'[p] # pc[p]
              /\ SnapshotOf(db, Mat(p).id) # {} /\ resp'[p].status # 500 )
            => \A old \in SnapshotOf(db, Mat(p).id) :
                  /\ SnapshotOf(db', Mat(p).id) =
                        { [old EXCEPT !.title = OrElse(rq[p].title, Mat(p).title),
                                      !.description =
                                          OrElse(rq[p].description,
                                                 OrElse(Mat(p).description, EmptyText)),
                                      !.content = IF rq[p].content = {}
                                                  THEN OrElse(Mat(p).content, EmptyText)
                                                  ELSE CHOOSE c \in rq[p].content : TRUE,
                                      !.updatedAt = nreq] }
                  /\ ReactionsTo(db', old.id) = ReactionsTo(db, old.id)]_vars

C7_Witness ==
    /\ \E e \in db.explores :
          /\ e.id = 5 /\ e.title = T("nt") /\ e.content = T("nc") /\ e.forksCount = 1
          /\ ReactionsTo(db, 5).comments # {}
    /\ \E p \in Procs : rq[p].route = "materials.publish" /\ rq[p].id = 4
                        /\ pc[p] = "done" /\ resp[p].status = 200

\* ----------------------------------------------------------- likes and dislikes
\* Users 1 and 2 like and dislike snapshot 5.
ReactionRequests ==
    { Req(rt, u, 5) : rt \in {"explore.like", "explore.dislike"}, u \in {1, 2} }

NextReaction ==
    \E p \in Procs :
        \/ \E r \in ReactionRequests : AuthMiddleware(p, r)
        \/ Like_deleteDislike(p) \/ Like_find(p) \/ Like_toggle(p)
        \/ Dislike_deleteLike(p) \/ Dislike_find(p) \/ Dislike_toggle(p)

SpecReaction == Init /\ [][NextReaction]_vars

\* C6: no user holds both a like and a dislike of the same snapshot, nor
\* more than one like or more than one dislike of it.
C6_LikeXorDislike ==
    \A u \in db.users, e \in db.explores :
        /\ ~(Reaction(db.likes, u.id, e.id) # {} /\ Reaction(db.dislikes, u.id, e.id) # {})
        /\ Cardinality(Reaction(db.likes, u.id, e.id)) <= 1
        /\ Cardinality(Reaction(db.dislikes, u.id, e.id)) <= 1

\* ------------------------------------------------------------------------ forks
\* Both users fork snapshot 5 and a snapshot that does not exist; its owner
\* deletes the material behind snapshot 5.
ForkRequests ==
    { Req("explore.fork", u, e) : u \in {1, 2}, e \in {5, 99} }
    \cup { Req("materials.delete", 2, 4) }

NextFork ==
    \E p \in Procs :
        \/ \E r \in ForkRequests : AuthMiddleware(p, r)
        \/ Fork_find(p) \/ Fork_create(p) \/ Fork_increment(p)
        \/ MaterialDelete_find(p) \/ MaterialDelete_delete(p)

SpecFork == Init /\ [][NextFork]_vars

\* the fork requests of snapshot eid that were answered with success
SuccessfulForks(eid) ==
    { p \in Procs : /\ rq[p].route = "explore.fork" /\ rq[p].id = eid
                    /\ pc[p] = "done" /\ resp[p].status = 200 }

\* C8: a fork by user U of snapshot E, as the request found it and as it is
\* stored while it exists, adds exactly one material, owned by U,
\* private, titled '<E.title> (Fork)' with E's description, content and type;
\* its success raises E.forksCount by one; E.forksCount has grown by the
\* number of forks answered with success; no fork step changes E's title,
\* description or content.
C8_ForkCopiesAndCounts ==
    /\ [](\A e \in db.explores : e.forksCount = Cardinality(SuccessfulForks(e.id)))
    /\ [][\A p \in Procs :
            (rq[p].route = "explore.fork" /\ Steps(p)) =>
               /\ \A e \in db.explores, f \in db'.explores :
                     f.id = e.id =>
                        /\ f.title = e.title /\ f.description = e.description
                        /\ f.content = e.content
               /\ (pc[p] = "explore.fork:create" /\ pc'[p] # "done") =>
                     \E e \in loc[p].row :
                        /\ e.id = rq[p].id
                        /\ \A c \in db.explores :
                              c.id = e.id => /\ c.title = e.title
                                             /\ c.description = e.description
                                             /\ c.content = e.content /\ c.type = e.type
                        /\ db'.materials \ db.materials =
                              { [id |-> db.nextId, userId |-> rq[p].user,
                                 title |-> e.title \o <<" (Fork)">>,
                                 description |-> e.description, content |-> e.content,
                                 type |-> e.type, summary |-> NullText,
                                 isPublic |-> FALSE, publishedAt |-> 0] }
                        /\ db.materials \subseteq db'.materials
               /\ (pc'[p] = "done" /\ resp'[p].status = 200) =>
                     /\ db'.materials = db.materials
                     /\ \E e \in db.explores, f \in db'.explores :
                           /\ e.id = rq[p].id /\ f.id = e.id
                           /\ f.forksCount = e.forksCount + 1]_vars

C8_Witness ==
    /\ Cardinality(SuccessfulForks(5)) = NumProcs
    /\ \E e \in db.explores : e.id = 5 /\ e.forksCount = NumProcs
    /\ \E m \in db.materials : m.title = <<"t4", " (Fork)">> /\ m.userId = 1 /\ ~m.isPublic

\* ------------------------------------------------------------------ study plans
\* User 1 regenerates the plan of material 3 (plan 7 with task 8), user 2
\* makes the first plan of material 4, and asks for one of material 3.
PlanRequests ==
    { Req("ai.studyPlan", 1, 3), Req("ai.studyPlan", 2, 4), Req("ai.studyPlan", 2, 3) }

NextPlan ==
    \E p \in Procs :
        \/ \E r \in PlanRequests : AuthMiddleware(p, r)
        \/ Plan_find(p) \/ Plan_ai(p) \/ Plan_findPlan(p) \/ Plan_reset(p)
        \/ Plan_createMany(p) \/ Plan_fetch(p)

SpecPlan == Init /\ [][NextPlan]_vars

\* C9: every (material, user) has at most one study plan; when a study-plan
\* request answers success, the tasks of its plan are exactly the tasks
\* generated in that request, none of them completed.
C9_PlanHoldsOwnTasks ==
    /\ [](\A a, b \in db.plans :
             (a.materialId = b.materialId /\ a.userId = b.userId) => a = b)
    /\ [][\A p \in Procs :
            ( /\ rq[p].route = "ai.studyPlan" /\ pc'[p] = "done" /\ pc[p] # "done"
              /\ resp'[p].status = 200 )
            => LET tasks == { t \in db'.tasks :
                                \E q \in PlanOf(db', rq[p].id, rq[p].user) :
                                   t.studyPlanId = q.id }
               IN /\ \A t \in tasks : t.gen = p /\ ~t.isCompleted
                  /\ Cardinality(tasks) = Len(loc[p].gen)]_vars

\* ------------------------------------------------------------ generateQuiz alone
\* Number of questions in a reply of the model
MaxQuestions == 2

\* the question texts of a reply, as the characters they stand for
QuestionTexts ==
    { <<"a">>, <<"{", "b", "}">>, <<"c", "\"", ",">>, <<"[", "\\", "d">> }

\* JSON.stringify of a string
RECURSIVE Escaped(_)
Escaped(chars) ==
    IF chars = << >> THEN << >>
    ELSE (IF Head(chars) \in {"\"", "\\"} THEN <<"\\", Head(chars)>> ELSE <<Head(chars)>>)
         \o Escaped(Tail(chars))

Quoted(chars) == <<"\"">> \o Escaped(chars) \o <<"\"">>

Key(name) == <<"\"">> \o name \o <<"\"", ":">>

QuestionKey == <<"q", "u", "e", "s", "t", "i", "o", "n">>
QuestionsKey == QuestionKey \o <<"s">>

\* the reply the model is asked for: {"questions":[{"question":"..."},...]}
RECURSIVE RenderQuestions(_)
RenderQuestions(texts) ==
    IF texts = << >> THEN << >>
    ELSE <<"{">> \o Key(QuestionKey) \o Quoted(Head(texts)) \o <<"}">>
         \o (IF Len(texts) > 1 THEN <<",", " ">> ELSE << >>)
         \o RenderQuestions(Tail(texts))

RenderQuiz(texts) ==
    <<"{">> \o Key(QuestionsKey) \o <<"[">> \o RenderQuestions(texts) \o <<"]", "}">>

\* the value JSON.parse gives for the questions of such a reply
QuestionValues(texts) ==
    JArr([i \in 1..Len(texts) |->
            JObj(<<[k |-> QuestionKey, val |-> JStr(texts[i])]>>)])

QuizDocs == UNION { [1..n -> QuestionTexts] : n \in 0..MaxQuestions }

Preamble == <<"H", "e", "r", "e", ":", "\n">>
Closing == <<"\n", "D", "o", "n", "e", ".">>

\* The outcomes of the chat-completion call: it throws; the model replies
\* with a quiz, whole or cut off at any character (max_tokens), bare or
\* between sentences; or it replies with something else.
QuizReplies ==
    { [ok |-> FALSE, text |-> << >>, of |-> << >>] }
    \cup UNION { { [ok |-> TRUE, text |-> SubSeq(RenderQuiz(d), 1, n), of |-> d] :
                      n \in 0..Len(RenderQuiz(d)) } : d \in QuizDocs }
    \cup { [ok |-> TRUE, text |-> Preamble \o RenderQuiz(d) \o Closing,
            of |-> d] : d \in QuizDocs }
    \cup { [ok |-> TRUE, text |-> t, of |-> << >>] :
             t \in { <<"S", "o", "r", "r", "y">>, <<"}", " ", "{">>, <<"{", "}">>,
                     <<"{", "\"", "a", "\"", ":", "1", "}", " ", "o", "r", " ", "{", "}">>,
                     <<"{", "\"", "q", "u", "e", "s", "t", "i", "o", "n", "s", "\"", ":",
                       "n", "u", "l", "l", "}">> } }

InitGenerateQuiz ==
    /\ db = InitDb
    /\ pc = [p \in Procs |-> "idle"]
    /\ rq = [p \in Procs |-> NoReq]
    /\ loc = [p \in Procs |-> NoLoc]
    /\ resp = [p \in Procs |-> NoResp]
    /\ nreq = 0
    /\ aiReply \in QuizReplies
    /\ quiz = {}

\* await generateQuiz(...): the call settles
CallGenerateQuiz ==
    /\ quiz = {}
    /\ quiz' = { GenerateQuiz(aiReply) }
    /\ UNCHANGED <<db, pc, rq, loc, resp, nreq, aiReply>>

NextGenerateQuiz == CallGenerateQuiz

SpecGenerateQuiz == InitGenerateQuiz /\ [][NextGenerateQuiz]_vars

\* the reply holds a "{" with a "}" somewhere after it
HasObject(text) == \E i, j \in 1..Len(text) : i < j /\ text[i] = "{" /\ text[j] = "}"

\* the text from the first "{" to the last "}"
ObjectText(text) ==
    LET i == CHOOSE k \in 1..Len(text) :
                text[k] = "{" /\ \A l \in 1..(k - 1) : text[l] # "{"
        j == CHOOSE k \in 1..Len(text) :
                text[k] = "}" /\ \A l \in (k + 1)..Len(text) : text[l] # "}"
    IN SubSeq(text, i, j)

EmptyList == JArr(<< >>)

\* C10: generateQuiz does not throw; it returns [] when the AI call fails,
\* when the reply holds no JSON object, and when the object parses neither
\* directly nor after fixTruncatedJson; when the object parses directly it
\* returns its questions, which for a whole reply of the model are the
\* questions the reply was rendered from, and fixTruncatedJson has not run.
C10_GenerateQuizNeverThrows ==
    \A r \in quiz :
        LET text == IF aiReply.text = << >> THEN <<"{", "}">> ELSE aiReply.text
        IN /\ ~r.threw
           /\ ~aiReply.ok => r.val = EmptyList
           /\ (aiReply.ok /\ ~HasObject(text)) => r.val = EmptyList
           /\ (aiReply.ok /\ HasObject(text)) =>
                 LET direct == JsonParse(ObjectText(text))
                     fixed == JsonParse(FixTruncatedJson(ObjectText(text)))
                 IN /\ (~direct.ok /\ ~fixed.ok) => r.val = EmptyList
                    /\ direct.ok =>
                          /\ ~r.repaired
                          /\ r.val = QuestionsOf(direct.val)
                    /\ ObjectText(text) = RenderQuiz(aiReply.of) =>
                          /\ direct.ok
                          /\ r.val = QuestionValues(aiReply.of)

C10_Witness ==
    \E r \in quiz :
        /\ aiReply.ok /\ Len(aiReply.of) = MaxQuestions
        /\ aiReply.text = Preamble \o RenderQuiz(aiReply.of) \o Closing
        /\ r.val = QuestionValues(aiReply.of) /\ ~r.repaired

\* --------------------------------------------------------------- registration
\* An email or a password is a sequence of characters.
\* /^[^\s@]+@[^\s@]+\.[^\s@]+$/.test(email)
EmailRegexTest(email) ==
    /\ \A i \in 1..Len(email) : email[i] \notin WS
    /\ Count(email, "@") = 1
    /\ LET at == First(Positions(email, "@"))
       IN /\ at > 1
          /\ \E dot \in Positions(email, ".") : at + 1 < dot /\ dot < Len(email)

MinPasswordLength == 6

\* the message of the first validation of POST /register that the body
\* fails, if any
RegisterInvalid(r) ==
    IF r.email = << >> \/ r.password = << >> THEN { "Email and password are required" }
    ELSE IF ~EmailRegexTest(r.email) THEN { "Invalid email format" }
    ELSE IF Len(r.password) < MinPasswordLength
         THEN { "Password must be at least 6 characters" }
    ELSE {}

\* prisma.user.findUnique({ where: { email } })
UserByEmail(d, email) == { u \in d.users : u.email = email }

\* an insert into users that no index restricts
UserInsertable_NoUniqueIndex(d, email) == TRUE

\* users_email_key: whether a user row with this email can be inserted
UserInsertable(d, email) == UserByEmail(d, email) = {}

\* A request to a route that is not behind authMiddleware arrives as the next
\* request and enters its handler.
Arrive(p, r) ==
    /\ pc[p] = "idle"
    /\ p = nreq + 1
    /\ nreq' = nreq + 1
    /\ rq' = [rq EXCEPT ![p] = r]
    /\ loc' = [loc EXCEPT ![p] = NoLoc]
    /\ pc' = [pc EXCEPT ![p] = r.route]
    /\ resp' = [resp EXCEPT ![p] = NoResp]
    /\ UNCHANGED <<db, aiReply, quiz>>

\* POST /api/auth/register
Register_find(p) ==
    /\ pc[p] = "auth.register"
    /\ IF RegisterInvalid(rq[p]) # {}
       THEN Respond(p, 400, CHOOSE m \in RegisterInvalid(rq[p]) : TRUE)
       ELSE IF UserByEmail(db, rq[p].email) # {}
            THEN Respond(p, 400, "Email already registered")
            ELSE Goto(p, "auth.register:hash")
    /\ UNCHANGED <<db, rq, loc, nreq, aiReply, quiz>>

\* await bcrypt.hash(password, 10)
Register_hash(p) ==
    /\ pc[p] = "auth.register:hash"
    /\ Goto(p, "auth.register:create")
    /\ UNCHANGED <<db, rq, loc, nreq, aiReply, quiz>>

Register_create(p) ==
    /\ pc[p] = "auth.register:create"
    /\ IF ~UserInsertable(db, rq[p].email)
       THEN Respond(p, 500, "Registration failed") /\ UNCHANGED db
       ELSE /\ db' = [db EXCEPT !.users = @ \cup { [id |-> db.nextId,
                                                   email |-> rq[p].email] },
                                !.nextId = @ + 1]
            /\ Respond(p, 201, "success")
    /\ UNCHANGED <<rq, loc, nreq, aiReply, quiz>>

\* Register requests for the email of user 1, for a new email and for
\* malformed ones, with no password, a short one and a good one.
RegisterRequests ==
    { [NoReq EXCEPT !.route = "auth.register", !.email = e, !.password = w] :
        e \in { << >>, <<"a", "@", "x", ".", "y">>, <<"c", "@", "x", ".", "y">>,
                <<"c", "@", "x">>, <<"c", " ", "@", "x", ".", "y">> },
        w \in { << >>, <<"p", "w">>, <<"s", "e", "c", "r", "e", "t">> } }

NextRegister ==
    \E p \in Procs :
        \/ \E r \in RegisterRequests : Arrive(p, r)
        \/ Register_find(p) \/ Register_hash(p) \/ Register_create(p)

SpecRegister == Init /\ [][NextRegister]_vars

\* no two users share an email
OneUserPerEmail == \A u, v \in db.users : u.email = v.email => u = v

\* the step that answers register request p
RegisterAnswered(p) ==
    rq[p].route = "auth.register" /\ pc[p] # "done" /\ pc'[p] = "done"

\* C11 as stated: a register request whose email belongs to a user is
\* answered 400 'Email already registered' and creates no user; no two users
\* ever share an email.
C11_TakenEmailIs400 ==
    /\ []OneUserPerEmail
    /\ [][\A p \in Procs :
            (RegisterAnswered(p) /\ UserByEmail(db, rq[p].email) # {}) =>
               /\ resp'[p].status = 400
               /\ resp'[p].body = "Email already registered"
               /\ db' = db]_vars

\* C11 amended: no two users ever share an email, and a register request
\* whose email belongs to a user when it is answered creates no user; it is
\* answered 400 'Email already registered' when its lookup finds that user,
\* 400 with the validation message when its password is missing or shorter
\* than six characters, and 500 'Registration failed' when the user appeared
\* between its lookup and its insert.
C11_TakenEmailCreatesNoUser ==
    /\ []OneUserPerEmail
    /\ [][\A p \in Procs :
            (RegisterAnswered(p) /\ UserByEmail(db, rq[p].email) # {}) =>
               /\ db' = db
               /\ resp'[p].status = IF pc[p] = "auth.register:create" THEN 500 ELSE 400
               /\ resp'[p].body =
                     IF pc[p] = "auth.register:create" THEN "Registration failed"
                     ELSE IF rq[p].password = << >> THEN "Email and password are required"
                     ELSE IF Len(rq[p].password) < 6
                          THEN "Password must be at least 6 characters"
                     ELSE "Email already registered"]_vars

C11_Witness ==
    \E p, q \in Procs :
        /\ rq[p].email = <<"c", "@", "x", ".", "y">> /\ rq[q].email = rq[p].email
        /\ pc[p] = "done" /\ resp[p].status = 201
        /\ pc[q] = "done" /\ resp[q].status = 500
        /\ Cardinality(UserByEmail(db, rq[p].email)) = 1

\* ------------------------------------------------------------------------ chat
\* Rows in the order of createdAt: ids are handed out in creation order.
RECURSIVE OrderByCreatedAt(_)
OrderByCreatedAt(rows) ==
    IF rows = {} THEN << >>
    ELSE LET first == CHOOSE r \in rows : \A o \in rows : r.id <= o.id
         IN <<first>> \o OrderByCreatedAt(rows \ { first })

\* take: 10 of the messages included with the material or chat session
HistoryTake == 10

\* take: n
Take(rows, n) == SubSeq(rows, 1, IF Len(rows) < n THEN Len(rows) ELSE n)

\* the n rows created last, oldest first
TakeLast(rows, n) == SubSeq(rows, IF Len(rows) < n THEN 1 ELSE Len(rows) - n + 1, Len(rows))

\* include: { messages: { orderBy: { createdAt: "asc" }, take: 10 } }
IncludedMessages_Latest(rows) == TakeLast(OrderByCreatedAt(rows), HistoryTake)

IncludedMessages(rows) == Take(OrderByCreatedAt(rows), HistoryTake)

\* chatHistory: the included messages as { role, content }, then the new
\* user message
ChatHistory(included, message) ==
    [i \in 1..Len(included) |-> [role |-> included[i].role, content |-> included[i].content]]
        \o << [role |-> "user", content |-> message] >>

\* the messages of material mid
MessagesOf(d, mid) == { m \in d.messages : m.materialId = mid }

\* a message row whose role is always 'user'
NewMessage_AlwaysUser(id, mid, role, content) ==
    [id |-> id, materialId |-> mid, role |-> "user", content |-> content]

\* the row of prisma.message.create
NewMessage(id, mid, role, content) ==
    [id |-> id, materialId |-> mid, role |-> role, content |-> content]

\* What chatWithMaterial returns: the reply of the model, a fixed sentence
\* when the reply is empty, an apology when the call throws.
ChatReplies ==
    { T("reply"), T("I couldn't generate a response."),
      T("I apologize, but I'm having trouble connecting to the AI service right now. Please try again later.") }

\* `\n\nUser: ${message}\nAssistant: ${aiResponse}`
Exchange(message, reply) == T("\n\nUser: ") \o message \o T("\nAssistant: ") \o reply

\* content: (material.content || "") + newContent, where material is the row
\* the handler read at its start
AppendedToRead(read, newContent) == OrElse(read, EmptyText) \o newContent

\* POST /api/chat/:materialId
Chat_find(p) ==
    /\ pc[p] = "chat.post"
    /\ IF Falsy(rq[p].text)
       THEN Respond(p, 400, "Message is required") /\ UNCHANGED loc
       ELSE LET material == FindOwnedMaterial(db, rq[p].id, rq[p].user)
            IN IF material = {}
               THEN Respond(p, 404, "Material not found") /\ UNCHANGED loc
               ELSE /\ Goto(p, "chat.post:saveUser")
                    /\ loc' = [loc EXCEPT ![p].material = material,
                                          ![p].fetched =
                                              IncludedMessages(MessagesOf(db, rq[p].id))]
    /\ UNCHANGED <<db, rq, nreq, aiReply, quiz>>

Chat_saveUser(p) ==
    /\ pc[p] = "chat.post:saveUser"
    /\ IF ById(db.materials, Mat(p).id) = {}
       THEN Respond(p, 500, "Failed to process message") /\ UNCHANGED <<db, loc>>
       ELSE LET userMessage == NewMessage(db.nextId, Mat(p).id, "user", rq[p].text)
            IN /\ db' = [db EXCEPT !.messages = @ \cup { userMessage }, !.nextId = @ + 1]
               /\ loc' = [loc EXCEPT ![p].userMessage = { userMessage },
                                     ![p].history = ChatHistory(loc[p].fetched, rq[p].text)]
               /\ Goto(p, "chat.post:ai")
    /\ UNCHANGED <<rq, nreq, aiReply, quiz>>

Chat_ai(p) ==
    /\ pc[p] = "chat.post:ai"
    /\ \E aiResponse \in ChatReplies : loc' = [loc EXCEPT ![p].fullContent = aiResponse]
    /\ Goto(p, "chat.post:saveAssistant")
    /\ UNCHANGED <<db, rq, nreq, aiReply, quiz>>

Chat_saveAssistant(p) ==
    /\ pc[p] = "chat.post:saveAssistant"
    /\ IF ById(db.materials, Mat(p).id) = {}
       THEN Respond(p, 500, "Failed to process message") /\ UNCHANGED <<db, loc>>
       ELSE LET assistantMessage ==
                    NewMessage(db.nextId, Mat(p).id, "assistant", loc[p].fullContent)
            IN /\ db' = [db EXCEPT !.messages = @ \cup { assistantMessage },
                                   !.nextId = @ + 1]
               /\ loc' = [loc EXCEPT ![p].assistant = { assistantMessage }]
               /\ IF Mat(p).type = "research"
                  THEN Goto(p, "chat.post:append")
                  ELSE RespondWith(p, loc[p].userMessage \cup { assistantMessage })
    /\ UNCHANGED <<rq, nreq, aiReply, quiz>>

Chat_append(p) ==
    /\ pc[p] = "chat.post:append"
    /\ IF ById(db.materials, Mat(p).id) = {}
       THEN Respond(p, 500, "Failed to process message") /\ UNCHANGED db
       ELSE LET Upd(m) ==
                  [m EXCEPT !.content =
                      AppendedToRead(Mat(p).content,
                                     Exchange(rq[p].text, loc[p].fullContent))]
            IN /\ db' = MaterialUpdate(db, Mat(p).id, Upd)
               /\ RespondWith(p, loc[p].userMessage \cup loc[p].assistant)
    /\ UNCHANGED <<rq, loc, nreq, aiReply, quiz>>

\* User 1 chats about material 3, appends text and a file to it and clears
\* its chat; user 2 chats about material 3 and about the own material 4; one
\* chat request has no message.  Material 3 is a text or a research material.
ChatRequests ==
    { [Req("chat.post", 1, 3) EXCEPT !.text = T("q1")],
      [Req("chat.post", 2, 4) EXCEPT !.text = T("q2")],
      [Req("chat.post", 2, 3) EXCEPT !.text = T("q2")],
      Req("chat.post", 1, 3),
      Req("chat.delete", 1, 3),
      [Req("materials.appendText", 1, 3) EXCEPT !.text = T("tx")],
      [Req("materials.appendFile", 1, 3) EXCEPT !.file = "pdf"] }

InitChat ==
    /\ db \in { [InitDb EXCEPT !.materials =
                   { IF m.id = 3 THEN [m EXCEPT !.type = type] ELSE m : m \in @ }] :
                type \in {"text", "research"} }
    /\ pc = [p \in Procs |-> "idle"]
    /\ rq = [p \in Procs |-> NoReq]
    /\ loc = [p \in Procs |-> NoLoc]
    /\ resp = [p \in Procs |-> NoResp]
    /\ nreq = 0
    /\ aiReply = [ok |-> FALSE, text |-> << >>]
    /\ quiz = {}

NextChat ==
    \E p \in Procs :
        \/ \E r \in ChatRequests : AuthMiddleware(p, r)
        \/ Chat_find(p) \/ Chat_saveUser(p) \/ Chat_ai(p) \/ Chat_saveAssistant(p)
        \/ Chat_append(p)
        \/ ChatDelete_find(p) \/ ChatDelete_deleteMany(p)
        \/ AppendText_find(p) \/ AppendText_update(p)
        \/ AppendFile_find(p) \/ AppendFile_update(p)

SpecChat == InitChat /\ [][NextChat]_vars

\* the messages that do not belong to material mid
OtherMessages(d, mid) == { m \in d.messages : m.materialId # mid }

\* C12: a chat request stores for its material first the user's message with
\* role 'user', before the AI is called, then the assistant's reply with
\* role 'assistant', and no other message; a request answered with success
\* has stored both and returns them; it never changes the messages of
\* another material.
C12_TwoMessagesInOrder ==
    [][\A p \in Procs :
         (rq[p].route = "chat.post" /\ Steps(p)) =>
            /\ OtherMessages(db', rq[p].id) = OtherMessages(db, rq[p].id)
            /\ db'.messages # db.messages =>
                  \/ /\ pc[p] = "chat.post:saveUser" /\ loc[p].userMessage = {}
                     /\ db'.messages = db.messages \cup loc'[p].userMessage
                     /\ \E u \in loc'[p].userMessage :
                           /\ u \notin db.messages /\ u.role = "user"
                           /\ u.content = rq[p].text /\ u.materialId = rq[p].id
                  \/ /\ pc[p] = "chat.post:saveAssistant" /\ loc[p].assistant = {}
                     /\ db'.messages = db.messages \cup loc'[p].assistant
                     /\ \E a \in loc'[p].assistant, u \in loc[p].userMessage :
                           /\ a \notin db.messages /\ a.role = "assistant"
                           /\ a.materialId = rq[p].id /\ u.id < a.id
            /\ (pc[p] = "chat.post:ai") => loc[p].userMessage # {}
            /\ (pc'[p] = "done" /\ resp'[p].status = 200) =>
                  /\ Cardinality(loc'[p].userMessage) = 1
                  /\ Cardinality(loc'[p].assistant) = 1
                  /\ resp'[p].data = loc'[p].userMessage \cup loc'[p].assistant]_vars

C12_Witness ==
    \E p \in Procs :
        /\ rq[p].route = "chat.post" /\ pc[p] = "done" /\ resp[p].status = 200
        /\ \E u, a \in MessagesOf(db, 3) :
              /\ resp[p].data = { u, a }
              /\ u.role = "user" /\ u.content = T("q1")
              /\ a.role = "assistant" /\ a.content = T("reply") /\ a.id > u.id

\* C13: a clear-chat request changes no table but the messages, and of these
\* only the messages of its material; when it is answered with success no
\* message of that material is stored, and the material's record and quizzes
\* are the ones stored before.
C13_ClearOnlyThatChat ==
    [][\A p \in Procs :
         (rq[p].route = "chat.delete" /\ Steps(p)) =>
            /\ [db' EXCEPT !.messages = db.messages] = db
            /\ OtherMessages(db', rq[p].id) = OtherMessages(db, rq[p].id)
            /\ db'.messages \subseteq db.messages
            /\ (pc'[p] = "done" /\ resp'[p].status = 200) =>
                  /\ MessagesOf(db', rq[p].id) = {}
                  /\ loc[p].material # {}]_vars

C13_Witness ==
    \E p \in Procs :
        /\ rq[p].route = "chat.delete" /\ pc[p] = "done" /\ resp[p].status = 200
        /\ MessagesOf(db, 3) = {}
        /\ \E m \in MessagesOf(db, 4) : m.role = "assistant"
        /\ \E q \in db.quizzes : q.materialId = 3

\* ------------------------------------------------------------ streaming chat
\* the most chunks the AI stream yields in one request
MaxChunks == 2

\* chunk.choices[0]?.delta?.content || "" of the n-th chunk of the AI stream:
\* a piece of text, or for the first chunk (a delta that carries the role
\* only) nothing
Deltas(n) == IF n = 1 THEN { EmptyText, T(ToString(n)) } ELSE { T(ToString(n)) }

\* one server-sent event: data: JSON.stringify({ type, content | message })
Event(type, content, message) == [type |-> type, content |-> content, message |-> message]

\* a response that is never ended
EndResponse_Never(r) == r

\* res.end()
EndResponse(r) == [r EXCEPT !.ended = TRUE]

\* a callback that puts the chunk in front of what it has
OnChunk_Prepend(fullContent, chunk) == chunk \o fullContent

\* fullContent += chunk
OnChunk(fullContent, chunk) == fullContent \o chunk

\* res.flushHeaders(); res.write(user_message event)
StreamStart(p, userMessage) ==
    resp' = [resp EXCEPT ![p] = [NoResp EXCEPT !.status = 200, !.body = "event-stream",
                                              !.events = << Event("user_message", EmptyText,
                                                                  { userMessage }) >>]]

\* catch (streamError): res.write(error event); then res.end()
StreamError(p) ==
    /\ pc' = [pc EXCEPT ![p] = "done"]
    /\ resp' = [resp EXCEPT ![p] =
                   EndResponse([@ EXCEPT !.events = Append(@, Event("error", EmptyText, {}))])]

\* res.write(done event); then res.end()
StreamDone(p, assistantMessage) ==
    /\ pc' = [pc EXCEPT ![p] = "done"]
    /\ resp' = [resp EXCEPT ![p] =
                   EndResponse([@ EXCEPT !.events =
                                   Append(@, Event("done", EmptyText, { assistantMessage }))])]

\* chatWithMaterialStream: await client.chat.completions.create({ stream: true })
\* returns the stream or throws
StreamOpen(p, l) ==
    /\ \/ Goto(p, l)
       \/ StreamError(p)
    /\ UNCHANGED <<db, rq, loc, nreq, aiReply, quiz>>

\* chatWithMaterialStream: one turn of for await (const chunk of stream): the
\* stream yields a chunk, whose delta reaches onChunk when it is not empty,
\* or the stream ends, or it throws
StreamRead(p, l) ==
    /\ \/ /\ loc[p].reads < MaxChunks
          /\ \E delta \in Deltas(loc[p].reads + 1) :
                IF Falsy(delta)
                THEN /\ loc' = [loc EXCEPT ![p].reads = @ + 1]
                     /\ UNCHANGED <<pc, resp>>
                ELSE /\ loc' = [loc EXCEPT ![p].reads = @ + 1,
                                           ![p].fullContent = OnChunk(@, delta)]
                     /\ resp' = [resp EXCEPT ![p].events =
                                    Append(@, Event("chunk", delta, {}))]
                     /\ UNCHANGED pc
       \/ Goto(p, l) /\ UNCHANGED loc
       \/ StreamError(p) /\ UNCHANGED loc
    /\ UNCHANGED <<db, rq, nreq, aiReply, quiz>>

\* POST /api/chat/:materialId/stream
ChatStream_find(p) ==
    /\ pc[p] = "chat.stream"
    /\ IF Falsy(rq[p].text)
       THEN Respond(p, 400, "Message is required") /\ UNCHANGED loc
       ELSE LET material == FindOwnedMaterial(db, rq[p].id, rq[p].user)
            IN IF material = {}
               THEN Respond(p, 404, "Material not found") /\ UNCHANGED loc
               ELSE /\ Goto(p, "chat.stream:saveUser")
                    /\ loc' = [loc EXCEPT ![p].material = material,
                                          ![p].fetched =
                                              IncludedMessages(MessagesOf(db, rq[p].id))]
    /\ UNCHANGED <<db, rq, nreq, aiReply, quiz>>

ChatStream_saveUser(p) ==
    /\ pc[p] = "chat.stream:saveUser"
    /\ IF ById(db.materials, Mat(p).id) = {}
       THEN Respond(p, 500, "Failed to process message") /\ UNCHANGED <<db, loc>>
       ELSE LET userMessage == NewMessage(db.nextId, Mat(p).id, "user", rq[p].text)
            IN /\ db' = [db EXCEPT !.messages = @ \cup { userMessage }, !.nextId = @ + 1]
               /\ loc' = [loc EXCEPT ![p].userMessage = { userMessage },
                                     ![p].history = ChatHistory(loc[p].fetched, rq[p].text)]
               /\ pc' = [pc EXCEPT ![p] = "chat.stream:open"]
               /\ StreamStart(p, userMessage)
    /\ UNCHANGED <<rq, nreq, aiReply, quiz>>

ChatStream_open(p) ==
    /\ pc[p] = "chat.stream:open"
    /\ StreamOpen(p, "chat.stream:read")

ChatStream_read(p) ==
    /\ pc[p] = "chat.stream:read"
    /\ StreamRead(p, "chat.stream:saveAssistant")

ChatStream_saveAssistant(p) ==
    /\ pc[p] = "chat.stream:saveAssistant"
    /\ IF ById(db.materials, Mat(p).id) = {}
       THEN StreamError(p) /\ UNCHANGED <<db, loc>>
       ELSE LET assistantMessage ==
                    NewMessage(db.nextId, Mat(p).id, "assistant", loc[p].fullContent)
            IN /\ db' = [db EXCEPT !.messages = @ \cup { assistantMessage },
                                   !.nextId = @ + 1]
               /\ loc' = [loc EXCEPT ![p].assistant = { assistantMessage }]
               /\ IF Mat(p).type = "research"
                  THEN Goto(p, "chat.stream:append")
                  ELSE StreamDone(p, assistantMessage)
    /\ UNCHANGED <<rq, nreq, aiReply, quiz>>

ChatStream_append(p) ==
    /\ pc[p] = "chat.stream:append"
    /\ IF ById(db.materials, Mat(p).id) = {}
       THEN StreamError(p) /\ UNCHANGED db
       ELSE LET Upd(m) ==
                  [m EXCEPT !.content =
                      AppendedToRead(Mat(p).content,
                                     Exchange(rq[p].text, loc[p].fullContent))]
                assistantMessage == CHOOSE a \in loc[p].assistant : TRUE
            IN /\ db' = MaterialUpdate(db, Mat(p).id, Upd)
               /\ StreamDone(p, assistantMessage)
    /\ UNCHANGED <<rq, loc, nreq, aiReply, quiz>>

\* the messages of a chat session
SessionMessagesOf(d, sid) == { m \in d.sessionMessages : m.chatSessionId = sid }

\* the row of prisma.chatSessionMessage.create
NewSessionMessage(id, sid, role, content) ==
    [id |-> id, chatSessionId |-> sid, role |-> role, content |-> content]

\* POST /api/chat-sessions/:id/stream
SessionStream_find(p) ==
    /\ pc[p] = "chatSessions.stream"
    /\ IF Falsy(rq[p].text)
       THEN Respond(p, 400, "Message is required") /\ UNCHANGED loc
       ELSE LET chatSession == FindOwnedSession(db, rq[p].id, rq[p].user)
            IN IF chatSession = {}
               THEN Respond(p, 404, "Chat session not found") /\ UNCHANGED loc
               ELSE /\ Goto(p, "chatSessions.stream:saveUser")
                    /\ loc' = [loc EXCEPT ![p].row = chatSession,
                                          ![p].fetched =
                                              IncludedMessages(SessionMessagesOf(db, rq[p].id))]
    /\ UNCHANGED <<db, rq, nreq, aiReply, quiz>>

SessionStream_saveUser(p) ==
    /\ pc[p] = "chatSessions.stream:saveUser"
    /\ IF ById(db.chatSessions, Row(p).id) = {}
       THEN Respond(p, 500, "Failed to process message") /\ UNCHANGED <<db, loc>>
       ELSE LET userMessage == NewSessionMessage(db.nextId, Row(p).id, "user", rq[p].text)
            IN /\ db' = [db EXCEPT !.sessionMessages = @ \cup { userMessage },
                                   !.nextId = @ + 1]
               /\ loc' = [loc EXCEPT ![p].userMessage = { userMessage },
                                     ![p].history = ChatHistory(loc[p].fetched, rq[p].text)]
               /\ pc' = [pc EXCEPT ![p] = "chatSessions.stream:open"]
               /\ StreamStart(p, userMessage)
    /\ UNCHANGED <<rq, nreq, aiReply, quiz>>

SessionStream_open(p) ==
    /\ pc[p] = "chatSessions.stream:open"
    /\ StreamOpen(p, "chatSessions.stream:read")

SessionStream_read(p) ==
    /\ pc[p] = "chatSessions.stream:read"
    /\ StreamRead(p, "chatSessions.stream:saveAssistant")

SessionStream_saveAssistant(p) ==
    /\ pc[p] = "chatSessions.stream:saveAssistant"
    /\ IF ById(db.chatSessions, Row(p).id) = {}
       THEN StreamError(p) /\ UNCHANGED <<db, loc>>
       ELSE LET assistantMessage ==
                    NewSessionMessage(db.nextId, Row(p).id, "assistant", loc[p].fullContent)
            IN /\ db' = [db EXCEPT !.sessionMessages = @ \cup { assistantMessage },
                                   !.nextId = @ + 1]
               /\ loc' = [loc EXCEPT ![p].assistant = { assistantMessage }]
               /\ Goto(p, "chatSessions.stream:update")
    /\ UNCHANGED <<rq, nreq, aiReply, quiz>>

\* prisma.chatSession.update({ data: { updatedAt: new Date() } })
SessionStream_update(p) ==
    /\ pc[p] = "chatSessions.stream:update"
    /\ IF ById(db.chatSessions, Row(p).id) = {}
       THEN StreamError(p) /\ UNCHANGED db
       ELSE /\ db' = [db EXCEPT !.chatSessions =
                         { IF c.id = Row(p).id THEN [c EXCEPT !.updatedAt = nreq] ELSE c :
                           c \in @ }]
            /\ StreamDone(p, CHOOSE a \in loc[p].assistant : TRUE)
    /\ UNCHANGED <<rq, loc, nreq, aiReply, quiz>>

\* the most streaming chat requests that arrive
MaxStreams == 1

\* the request is a streaming chat
Streaming(p) == rq[p].route \in { "chat.stream", "chatSessions.stream" }

\* a request arrives; of the streaming chats at most MaxStreams do
ArriveBounded(p, r) ==
    /\ r.route \in { "chat.stream", "chatSessions.stream" } =>
          Cardinality({ q \in Procs : Streaming(q) }) < MaxStreams
    /\ AuthMiddleware(p, r)

\* User 1 streams a chat about material 3 and in session 6, once without a
\* message, and meanwhile deletes the material or the session.
StreamRequests ==
    { [Req("chat.stream", 1, 3) EXCEPT !.text = T("q1")],
      Req("chat.stream", 1, 3),
      [Req("chatSessions.stream", 1, 6) EXCEPT !.text = T("q1")],
      Req("materials.delete", 1, 3),
      Req("chatSessions.delete", 1, 6) }

NextStream ==
    \E p \in Procs :
        \/ \E r \in StreamRequests : ArriveBounded(p, r)
        \/ ChatStream_find(p) \/ ChatStream_saveUser(p) \/ ChatStream_open(p)
        \/ ChatStream_read(p) \/ ChatStream_saveAssistant(p) \/ ChatStream_append(p)
        \/ SessionStream_find(p) \/ SessionStream_saveUser(p) \/ SessionStream_open(p)
        \/ SessionStream_read(p) \/ SessionStream_saveAssistant(p)
        \/ SessionStream_update(p)
        \/ MaterialDelete_find(p) \/ MaterialDelete_delete(p)
        \/ SessionDelete_find(p) \/ SessionDelete_delete(p)

SpecStream == InitChat /\ [][NextStream]_vars

\* the types of the events written so far
EventTypes(p) == [i \in 1..Len(resp[p].events) |-> resp[p].events[i].type]

\* user_message, then chunks, then at most one of done and error, last
WellFormedEvents(types) ==
    /\ types # << >>
    /\ types[1] = "user_message"
    /\ \A i \in 2..Len(types) :
          \/ types[i] = "chunk"
          \/ types[i] \in { "done", "error" } /\ i = Len(types)

\* the events are complete: the last one is done or error
Terminated(types) == types # << >> /\ types[Len(types)] \in { "done", "error" }

\* C14 as stated: every streaming chat request that passed validation and
\* the ownership check and is over has written one user_message event, then
\* chunk events, then one done or error event, and has ended the response.
C14_EveryOwnedStreamHasEvents ==
    \A p \in Procs :
        (Streaming(p) /\ pc[p] = "done" /\ (loc[p].material # {} \/ loc[p].row # {})) =>
            /\ WellFormedEvents(EventTypes(p))
            /\ Terminated(EventTypes(p))
            /\ resp[p].ended

\* C14: a streaming chat request writes events only after it stored the
\* user's message; from then on its events are one user_message event
\* first, then chunk events, then at most one terminal event, done or
\* error, after which nothing is written; the response is ended exactly
\* when the terminal event is written, and a finished request whose user
\* message was stored has written one.  Events once written stay.
C14_EventOrder ==
    /\ [](\A p \in Procs :
            Streaming(p) =>
               /\ (resp[p].events = << >>) <=> (loc[p].userMessage = {})
               /\ resp[p].events # << >> =>
                     /\ WellFormedEvents(EventTypes(p))
                     /\ resp[p].ended <=> Terminated(EventTypes(p))
                     /\ (pc[p] = "done") <=> resp[p].ended
               /\ resp[p].events = << >> =>
                     (pc[p] = "done" => resp[p].status \in { 400, 401, 404, 500 }))
    /\ [][\A p \in Procs :
            (Streaming(p) /\ resp[p].events # << >>) =>
               /\ Len(resp'[p].events) >= Len(resp[p].events)
               /\ SubSeq(resp'[p].events, 1, Len(resp[p].events)) = resp[p].events
               /\ resp[p].ended => resp'[p] = resp[p]]_vars

C14_Witness ==
    \E p \in Procs :
        /\ rq[p].route = "chatSessions.stream" /\ pc[p] = "done" /\ resp[p].ended
        /\ EventTypes(p) = << "user_message", "chunk", "chunk", "done" >>

RECURSIVE ChunkContents(_)
\* the contents of the chunk events, concatenated in the order written
ChunkContents(events) ==
    IF events = << >> THEN EmptyText
    ELSE LET e == events[Len(events)]
             front == ChunkContents(SubSeq(events, 1, Len(events) - 1))
         IN IF e.type = "chunk" THEN front \o e.content ELSE front

\* the assistant messages stored for request p's chat with the content it
\* streamed, created by request p
StoredAssistant(p) ==
    IF rq[p].route = "chat.stream" THEN db.messages \cap loc[p].assistant
    ELSE db.sessionMessages \cap loc[p].assistant

\* the step of request p writes an event of this type
Writes(p, type) ==
    /\ Len(resp'[p].events) = Len(resp[p].events) + 1
    /\ resp'[p].events[Len(resp'[p].events)].type = type

MaxStored == 12

\* a stored conversation of n messages with ids from first on, the user and
\* the assistant taking turns
Conversation(first, n, Stored(_, _, _)) ==
    { Stored(first + i - 1, IF i % 2 = 1 THEN "user" ELSE "assistant", T(ToString(i))) :
      i \in 1..n }

\* Material 3 is a research material; it and session 6 hold a conversation
\* of up to MaxStored messages besides the seeded one.
InitHistory ==
    /\ \E n \in 0..MaxStored :
          LET MRow(id, role, content) == NewMessage(id, 3, role, content)
              SRow(id, role, content) == NewSessionMessage(id, 6, role, content)
          IN db = [InitDb EXCEPT
                     !.materials = { IF m.id = 3 THEN [m EXCEPT !.type = "research"] ELSE m :
                                     m \in @ },
                     !.messages = @ \cup Conversation(InitDb.nextId, n, MRow),
                     !.sessionMessages = @ \cup Conversation(InitDb.nextId + n, n, SRow),
                     !.nextId = @ + 2 * n]
    /\ pc = [p \in Procs |-> "idle"]
    /\ rq = [p \in Procs |-> NoReq]
    /\ loc = [p \in Procs |-> NoLoc]
    /\ resp = [p \in Procs |-> NoResp]
    /\ nreq = 0
    /\ aiReply = [ok |-> FALSE, text |-> << >>]
    /\ quiz = {}

HistoryRequests ==
    { [Req("chat.post", 1, 3) EXCEPT !.text = T("q1")],
      [Req("chat.stream", 1, 3) EXCEPT !.text = T("q1")],
      [Req("chatSessions.stream", 1, 6) EXCEPT !.text = T("q1")] }

NextHistory ==
    \E p \in Procs :
        \/ \E r \in HistoryRequests : ArriveBounded(p, r)
        \/ Chat_find(p) \/ Chat_saveUser(p) \/ Chat_ai(p) \/ Chat_saveAssistant(p)
        \/ Chat_append(p)
        \/ ChatStream_find(p) \/ ChatStream_saveUser(p) \/ ChatStream_open(p)
        \/ ChatStream_read(p) \/ ChatStream_saveAssistant(p) \/ ChatStream_append(p)
        \/ SessionStream_find(p) \/ SessionStream_saveUser(p) \/ SessionStream_open(p)
        \/ SessionStream_read(p) \/ SessionStream_saveAssistant(p)
        \/ SessionStream_update(p)

SpecHistory == InitHistory /\ [][NextHistory]_vars

\* the messages stored for the chat request p addresses
StoredFor(p) ==
    IF rq[p].route = "chatSessions.stream" THEN SessionMessagesOf(db, rq[p].id)
    ELSE MessagesOf(db, rq[p].id)

\* C16: the messages a chat request reads for the AI are the last ten stored
\* for its chat, in chronological order, and the history it sends is these
\* followed by the new user message.
C16_HistoryIsLastTen ==
    [][\A p \in Procs :
         /\ (pc[p] \in { "chat.post", "chat.stream", "chatSessions.stream" }
               /\ pc'[p] # "done" /\ pc'[p] # pc[p]) =>
               loc'[p].fetched = IncludedMessages_Latest(StoredFor(p))
         /\ (loc[p].userMessage = {} /\ loc'[p].userMessage # {}) =>
               loc'[p].history = ChatHistory(loc[p].fetched, rq[p].text)]_vars

\* the text a successful append request adds to its material's content
AppendedText(p) ==
    IF rq[p].route = "materials.appendText" THEN rq[p].text
    ELSE IF rq[p].route = "materials.appendFile"
         THEN CHOOSE t \in ParsedFile(rq[p].file) : TRUE
         ELSE Exchange(rq[p].text, loc[p].fullContent)

\* request p appended to material mid and was answered with success
Appended(p, mid) ==
    /\ pc[p] = "done" /\ resp[p].status = 200 /\ rq[p].id = mid
    /\ \/ rq[p].route \in { "materials.appendText", "materials.appendFile" }
       \/ rq[p].route = "chat.post" /\ loc[p].material # {} /\ Mat(p).type = "research"

\* t is the beginning of s
BeginsWith(s, t) == Len(t) <= Len(s) /\ SubSeq(s, 1, Len(t)) = t

\* C17: when two append requests on one material (append-text, append-file,
\* a chat exchange on a research material) were both answered with success,
\* the material's content begins with the content it had before them and
\* contains the text of each.
C17_AppendsKeepEveryText ==
    \A p, q \in Procs :
        \A m \in db.materials :
            (p # q /\ Appended(p, m.id) /\ Appended(q, m.id)) =>
                \A prior \in ById(InitDb.materials, m.id) :
                    /\ BeginsWith(m.content, prior.content)
                    /\ OccursIn(AppendedText(p), m.content)
                    /\ OccursIn(AppendedText(q), m.content)

\* request p made a study plan of material mid and was answered with success
Planned(p, mid) ==
    rq[p].route = "ai.studyPlan" /\ rq[p].id = mid /\ pc[p] = "done" /\ resp[p].status = 200

\* the rows are exactly the tasks request p generated
GenerationOf(rows, p) ==
    /\ \A t \in rows : t.gen = p
    /\ Cardinality(rows) = Len(loc[p].gen)

\* C18: when two study-plan requests of one user for one material were both
\* answered with success, the plan's tasks are exactly the tasks of one of
\* the two generations, and each response carries the task list of its own
\* generation.
C18_OneGenerationWins ==
    \A p, q \in Procs :
        (p # q /\ rq[p].user = rq[q].user /\ Planned(p, rq[p].id) /\ Planned(q, rq[p].id)) =>
            LET tasks == { t \in db.tasks :
                             \E s \in PlanOf(db, rq[p].id, rq[p].user) : t.studyPlanId = s.id }
            IN /\ GenerationOf(tasks, p) \/ GenerationOf(tasks, q)
               /\ GenerationOf(resp[p].data, p)
               /\ GenerationOf(resp[q].data, q)

\* --------------------------------------------------- evaluating a task answer
\* User 1 answers the question of task 8, once with no answer, and sets
\* the task's completion by hand; user 2 answers for task 8 too.  Task 8 is
\* completed or not when the requests arrive.
EvaluateRequests ==
    { [Req("ai.task.evaluate", 1, 8) EXCEPT !.text = T("answer")],
      Req("ai.task.evaluate", 1, 8),
      [Req("ai.task.evaluate", 2, 8) EXCEPT !.text = T("answer")] }
    \cup { [Req("ai.task.patch", 1, 8) EXCEPT !.flag = f] : f \in BOOLEAN }

InitEvaluate ==
    /\ db \in { [InitDb EXCEPT !.tasks = { [t EXCEPT !.isCompleted = c] : t \in @ }] :
                c \in BOOLEAN }
    /\ pc = [p \in Procs |-> "idle"]
    /\ rq = [p \in Procs |-> NoReq]
    /\ loc = [p \in Procs |-> NoLoc]
    /\ resp = [p \in Procs |-> NoResp]
    /\ nreq = 0
    /\ aiReply = [ok |-> FALSE, text |-> << >>]
    /\ quiz = {}

NextEvaluate ==
    \E p \in Procs :
        \/ \E r \in EvaluateRequests : AuthMiddleware(p, r)
        \/ TaskEvaluate_find(p) \/ TaskEvaluate_ai(p) \/ TaskEvaluate_update(p)
        \/ TaskPatch_find(p) \/ TaskPatch_update(p)

SpecEvaluate == InitEvaluate /\ [][NextEvaluate]_vars

\* C19: an evaluate request changes the database only when its evaluation's
\* passed is true, and then only by setting the task's isCompleted to true;
\* answered with success it reports passed and taskCompleted equal to the
\* evaluation's passed, and the task is completed at that step when passed
\* is true.
C19_CompletedIffPassed ==
    [][\A p \in Procs :
         (rq[p].route = "ai.task.evaluate" /\ Steps(p)) =>
            LET passed == EvaluateTaskAnswer(rq'[p].ai).passed
            IN /\ db' # db =>
                     /\ passed = JTrue
                     /\ \E t \in db.tasks :
                           /\ t.id = rq[p].id /\ ~t.isCompleted
                           /\ db' = [db EXCEPT !.tasks =
                                        (@ \ { t }) \cup { [t EXCEPT !.isCompleted = TRUE] }]
               /\ (pc'[p] = "done" /\ resp'[p].status = 200) =>
                     /\ resp'[p].data = { [passed |-> passed, taskCompleted |-> passed] }
                     /\ passed \in { JTrue, JFalse }
                     /\ passed = JTrue =>
                           \E t \in db'.tasks : t.id = rq[p].id /\ t.isCompleted]_vars

\* the position in RenderQuiz(texts) of the "}" that closes question i
EndOfQuestion(texts, i) ==
    Len(<<"{">> \o Key(QuestionsKey) \o <<"[">>) + Len(RenderQuestions(SubSeq(texts, 1, i)))

\* the number of question objects of RenderQuiz(texts) that are complete in
\* its first n characters
CompleteBefore(texts, n) ==
    Cardinality({ i \in 1..Len(texts) : EndOfQuestion(texts, i) <= n })

\* the reply is a rendered quiz cut off after at least one complete question
CutAfterQuestion ==
    /\ aiReply.ok
    /\ Len(aiReply.text) < Len(RenderQuiz(aiReply.of))
    /\ aiReply.text = SubSeq(RenderQuiz(aiReply.of), 1, Len(aiReply.text))
    /\ CompleteBefore(aiReply.of, Len(aiReply.text)) >= 1

\* C20: for a quiz reply cut off after at least one complete question
\* object, generateQuiz returns exactly the complete question objects that
\* precede the cut, in order, whatever characters the question texts hold.
C20_CompleteQuestionsSurvive ==
    \A r \in quiz :
        CutAfterQuestion =>
            r.val = QuestionValues(SubSeq(aiReply.of, 1,
                                          CompleteBefore(aiReply.of, Len(aiReply.text))))

\* -------------------------------------------------------- fixTruncatedJson alone
\* the longest input given to fixTruncatedJson
MaxLen == 4

\* the characters of an input: the ones the function looks at, a space and
\* a letter
FixChars == { "{", "}", "[", "]", ",", "\"", " ", "a" }

FixInputs == UNION { [1..n -> FixChars] : n \in 0..MaxLen }

InitFix ==
    /\ db = InitDb
    /\ pc = [p \in Procs |-> "idle"]
    /\ rq = [p \in Procs |-> NoReq]
    /\ loc = [p \in Procs |-> NoLoc]
    /\ resp = [p \in Procs |-> NoResp]
    /\ nreq = 0
    /\ aiReply \in { [ok |-> TRUE, text |-> s] : s \in FixInputs }
    /\ quiz = {}

\* fixTruncatedJson(jsonStr) returns
CallFix ==
    /\ quiz = {}
    /\ quiz' = { [first |-> FixTruncatedJson(aiReply.text),
                  fixed |-> FixTruncatedJson(aiReply.text), times |-> 1] }
    /\ UNCHANGED <<db, pc, rq, loc, resp, nreq, aiReply>>

\* fixTruncatedJson applied to what it returned
CallFixAgain ==
    /\ \E r \in quiz :
          /\ r.times = 1
          /\ quiz' = { [r EXCEPT !.fixed = FixTruncatedJson(r.first), !.times = 2] }
    /\ UNCHANGED <<db, pc, rq, loc, resp, nreq, aiReply>>

NextFix == CallFix \/ CallFixAgain

SpecFix == InitFix /\ [][NextFix]_vars

\* as many "{" as "}" and as many "[" as "]"
Balanced(s) == Count(s, "{") = Count(s, "}") /\ Count(s, "[") = Count(s, "]")

\* no more "}" than "{" and no more "]" than "["
NoExcessClosing(s) == Count(s, "}") <= Count(s, "{") /\ Count(s, "]") <= Count(s, "[")

\* C21: for an input with no more closing than opening braces and brackets
\* fixTruncatedJson returns a string with as many "{" as "}" and as many "["
\* as "]"; a balanced input is returned trimmed and otherwise unchanged; and
\* the function applied to its result returns that result.
C21_BalancedAndIdempotent ==
    \A r \in quiz :
        NoExcessClosing(aiReply.text) =>
            /\ Balanced(r.first)
            /\ Balanced(aiReply.text) => r.first = TrimStr(aiReply.text)
            /\ r.times = 2 => r.fixed = r.first
====
